---- MODULE Spec2Model ----
(***************************************************************************)
(* Model of the x402x payment server (typescript/packages/x402x-server)    *)
(* and of the facilitator client it calls (x402x-facilitator).             *)
(*                                                                         *)
(* Conventions.                                                            *)
(*  - A JavaScript string that the code inspects character by character    *)
(*    (the X-PAYMENT header, the decoded JSON text) is a sequence of       *)
(*    character codes.  A string the code only passes on or concatenates   *)
(*    (error texts, addresses, hashes) is a TLA+ string.                   *)
(*  - An optional value is a sequence of length at most one: << >> is      *)
(*    undefined, <<v>> is the value v.                                     *)
(*  - An operation that may throw returns [thrown |-> FALSE, value |-> v]  *)
(*    or [thrown |-> TRUE, error |-> e], with e = [isError, message].      *)
(***************************************************************************)
EXTENDS Integers, Sequences, FiniteSets, TLC

(***************************************************************************)
(* State: one process() call at a time, at its awaits.                     *)
(***************************************************************************)

VARIABLES
  pc,                    \* "idle", "verify" (awaiting facilitator.verify),
                         \* "settle" (awaiting facilitator.settle), "done"
  paymentHeader,         \* arguments of the running call
  expectedRequirements,
  parsed,                \* optional ParseResult
  verifyBehaviour,       \* optional: what the facilitator did on verify
  verified,              \* optional VerifyResult
  settleBehaviour,       \* optional: what the facilitator did on settle
  settled,               \* optional SettleResult
  calls,                 \* facilitator requests issued by the running call
  outcome,               \* optional completion of the call: Returned(ProcessResult) or thrown
  nRequests,             \* process() calls completed
  cache,                 \* TokenDetector.cache: a Map, its entries in insertion order
  chain,                 \* the chain id of the node behind the RPC client
  tasks,                 \* the calls of the detector's methods in flight
  stats,                 \* optional: what the last getCacheStats() returned
  nCalls,                \* calls of the detector's methods so far
  building,              \* the createRequirements() call in flight, or the last one
  thisNetwork,           \* X402Server.network: optional network name
  nBuilds,               \* createRequirements() calls so far
  gate,                  \* the run of the gate middleware in flight, or the last one
  options,               \* the options the middleware was created with
  nGated,                \* runs of the middleware so far
  client,                \* the call of the facilitator client in flight, or the last one
  warmup,                \* the X402Server.initialize() call in flight, or the last one
  probing                \* the detectTokenPaymentMethods() run in flight, or the last one


(***************************************************************************)
(* Text                                                                    *)
(***************************************************************************)

\* The character codes of the literal strings the model spells out.
Codes ==
  "x402Version" :> <<120, 52, 48, 50, 86, 101, 114, 115, 105, 111, 110>> @@
  "scheme" :> <<115, 99, 104, 101, 109, 101>> @@
  "network" :> <<110, 101, 116, 119, 111, 114, 107>> @@
  "payload" :> <<112, 97, 121, 108, 111, 97, 100>> @@
  "authorizationType" :> <<97, 117, 116, 104, 111, 114, 105, 122, 97, 116, 105, 111, 110, 84, 121, 112, 101>> @@
  "signature" :> <<115, 105, 103, 110, 97, 116, 117, 114, 101>> @@
  "exact" :> <<101, 120, 97, 99, 116>> @@
  "upto" :> <<117, 112, 116, 111>> @@
  "bsc" :> <<98, 115, 99>> @@
  "base" :> <<98, 97, 115, 101>> @@
  "mars" :> <<109, 97, 114, 115>> @@
  "permit" :> <<112, 101, 114, 109, 105, 116>> @@
  "eip3009" :> <<101, 105, 112, 51, 48, 48, 57>> @@
  "permit2" :> <<112, 101, 114, 109, 105, 116, 50>> @@
  "0xsig" :> <<48, 120, 115, 105, 103>> @@
  "data:application/json;base64," :> <<100, 97, 116, 97, 58, 97, 112, 112, 108, 105, 99, 97, 116, 105, 111, 110, 47, 106, 115, 111, 110, 59, 98, 97, 115, 101, 54, 52, 44>> @@
  "invalid-base64" :> <<105, 110, 118, 97, 108, 105, 100, 45, 98, 97, 115, 101, 54, 52>> @@
  "base-sepolia" :> <<98, 97, 115, 101, 45, 115, 101, 112, 111, 108, 105, 97>> @@
  "avalanche-fuji" :> <<97, 118, 97, 108, 97, 110, 99, 104, 101, 45, 102, 117, 106, 105>> @@
  "avalanche" :> <<97, 118, 97, 108, 97, 110, 99, 104, 101>> @@
  "iotex" :> <<105, 111, 116, 101, 120>> @@
  "solana-devnet" :> <<115, 111, 108, 97, 110, 97, 45, 100, 101, 118, 110, 101, 116>> @@
  "solana" :> <<115, 111, 108, 97, 110, 97>> @@
  "sei" :> <<115, 101, 105>> @@
  "sei-testnet" :> <<115, 101, 105, 45, 116, 101, 115, 116, 110, 101, 116>> @@
  "polygon" :> <<112, 111, 108, 121, 103, 111, 110>> @@
  "polygon-amoy" :> <<112, 111, 108, 121, 103, 111, 110, 45, 97, 109, 111, 121>> @@
  "peaq" :> <<112, 101, 97, 113>> @@
  "bsc-testnet" :> <<98, 115, 99, 45, 116, 101, 115, 116, 110, 101, 116>> @@
  "true" :> <<116, 114, 117, 101>> @@
  "false" :> <<102, 97, 108, 115, 101>> @@
  "null" :> <<110, 117, 108, 108>>

Txt(s) == Codes[s]

Undefined == << >>
Some(v) == <<v>>

StartsWith(s, p) == Len(s) >= Len(p) /\ SubSeq(s, 1, Len(p)) = p

Drop(s, n) == SubSeq(s, n + 1, Len(s))

Returned(v) == [thrown |-> FALSE, value |-> v]
Throw(isErr, msg) == [thrown |-> TRUE, error |-> [isError |-> isErr, message |-> msg]]

\* What Schema.parse throws: an Error that carries the issues found.
ZodError(msg) ==
  [thrown |-> TRUE, error |-> [isError |-> TRUE, message |-> msg, issues |-> <<msg>>]]

(***************************************************************************)
(* Base64 (utils.ts).  The server runs under Node.js, where `window` is    *)
(* undefined, so decodeBase64 takes the Buffer branch: Buffer.from(s,      *)
(* "base64") accepts both the standard and the URL-safe alphabet, skips    *)
(* every other character, stops at the first "=" and never throws.         *)
(***************************************************************************)

\* The value of a Base64 character, -1 for a character outside the alphabet.
B64Value(c) ==
  IF c >= 65 /\ c <= 90 THEN c - 65
  ELSE IF c >= 97 /\ c <= 122 THEN c - 71
  ELSE IF c >= 48 /\ c <= 57 THEN c + 4
  ELSE IF c = 43 \/ c = 45 THEN 62
  ELSE IF c = 47 \/ c = 95 THEN 63
  ELSE -1

\* The Base64 character of a 6-bit value (standard alphabet).
B64Char(v) ==
  IF v < 26 THEN v + 65
  ELSE IF v < 52 THEN v + 71
  ELSE IF v < 62 THEN v - 4
  ELSE IF v = 62 THEN 43
  ELSE 47

\* The 6-bit values of the Base64 characters of s, up to the first "=".
Sextets(s) ==
  LET stop == IF \E i \in 1..Len(s) : s[i] = 61
              THEN CHOOSE i \in 1..Len(s) : s[i] = 61 /\ \A j \in 1..(i - 1) : s[j] # 61
              ELSE Len(s) + 1
      legal == SelectSeq(SubSeq(s, 1, stop - 1), LAMBDA c : B64Value(c) >= 0)
  IN  [i \in 1..Len(legal) |-> B64Value(legal[i])]

\* Four 6-bit values make three bytes; a last group of two makes one byte, of
\* three makes two, and a single left-over value makes none.
SextetsToBytes(x) ==
  LET n == Len(x)
      last == IF n % 4 = 2 THEN 1 ELSE IF n % 4 = 3 THEN 2 ELSE 0
  IN  [k \in 1..(((n \div 4) * 3) + last) |->
        LET g == 4 * ((k - 1) \div 3)
            pos == (k - 1) % 3
        IN  IF pos = 0 THEN (x[g + 1] * 4) + (x[g + 2] \div 16)
            ELSE IF pos = 1 THEN ((x[g + 2] % 16) * 16) + (x[g + 3] \div 4)
            ELSE ((x[g + 3] % 4) * 64) + x[g + 4]]

IsLead2(byte) == byte >= 194 /\ byte <= 223
IsContinuation(byte) == byte >= 128 /\ byte <= 191

\* Buffer.toString("utf-8"): one- and two-byte sequences are decoded, every
\* other byte becomes U+FFFD.
Utf8Decode(b) ==
  LET n == Len(b)
      chars == [i \in 1..n |->
                 IF i > 1 /\ IsLead2(b[i - 1]) /\ IsContinuation(b[i]) THEN -1
                 ELSE IF b[i] < 128 THEN b[i]
                 ELSE IF IsLead2(b[i]) /\ i < n /\ IsContinuation(b[i + 1])
                   THEN ((b[i] - 192) * 64) + (b[i + 1] - 128)
                 ELSE 65533]
  IN  SelectSeq(chars, LAMBDA c : c >= 0)

\* Buffer.from(str, "utf-8") for code points below U+0800.
Utf8Encode(s) ==
  LET bytes == [k \in 1..(2 * Len(s)) |->
                 LET c == s[(k + 1) \div 2]
                 IN  IF k % 2 = 1 THEN (IF c < 128 THEN c ELSE 192 + (c \div 64))
                     ELSE (IF c < 128 THEN -1 ELSE 128 + (c % 64))]
  IN  SelectSeq(bytes, LAMBDA x : x >= 0)

\* Buffer.toString("base64"): three bytes make four characters, padded with "=".
BytesToB64(b) ==
  LET n == Len(b)
      At(i) == IF i <= n THEN b[i] ELSE 0
  IN  [k \in 1..(4 * ((n + 2) \div 3)) |->
        LET g == 3 * ((k - 1) \div 4)
            pos == (k - 1) % 4
        IN  IF pos = 0 THEN B64Char(At(g + 1) \div 4)
            ELSE IF pos = 1 THEN B64Char(((At(g + 1) % 4) * 16) + (At(g + 2) \div 16))
            ELSE IF pos = 2 THEN (IF g + 2 > n THEN 61
                                  ELSE B64Char(((At(g + 2) % 16) * 4) + (At(g + 3) \div 64)))
            ELSE (IF g + 3 > n THEN 61 ELSE B64Char(At(g + 3) % 64))]

DataUrlPrefix == Txt("data:application/json;base64,")

\* decodeBase64 without the removal of the data URL prefix.
decodeBase64_keeps_prefix(base64) ==
  Utf8Decode(SextetsToBytes(Sextets(base64)))

decodeBase64(base64) ==
  LET cleanBase64 == IF StartsWith(base64, DataUrlPrefix)
                     THEN Drop(base64, Len(DataUrlPrefix))
                     ELSE base64
  IN  Utf8Decode(SextetsToBytes(Sextets(cleanBase64)))

encodeBase64(str) == BytesToB64(Utf8Encode(str))

(***************************************************************************)
(* JSON.  A JSON value is tagged with its type.  The parser covers         *)
(* objects, arrays, strings with the single-character escapes, integers    *)
(* and the three literals; \u escapes, fractions and exponents are not     *)
(* among the texts the model sends.                                        *)
(***************************************************************************)

JNull == [t |-> "null"]
JBool(b) == [t |-> "bool", v |-> b]
JNum(n) == [t |-> "num", v |-> n]
JStr(s) == [t |-> "str", v |-> s]
JArr(elems) == [t |-> "arr", v |-> elems]
\* members: a sequence of <<key, value>> pairs, in source order
JObj(members) == [t |-> "obj", v |-> members]

NoParse == [ok |-> FALSE]
Parsed(v, rest) == [ok |-> TRUE, val |-> v, rest |-> rest]

IsWs(c) == c = 32 \/ c = 9 \/ c = 10 \/ c = 13
IsDigit(c) == c >= 48 /\ c <= 57

RECURSIVE SkipWs(_)
SkipWs(s) == IF s # << >> /\ IsWs(Head(s)) THEN SkipWs(Tail(s)) ELSE s

\* The characters of a string literal, s starting after the opening quote.
RECURSIVE ParseChars(_, _)
ParseChars(s, acc) ==
  IF s = << >> THEN NoParse
  ELSE IF Head(s) = 34 THEN Parsed(JStr(acc), Tail(s))
  ELSE IF Head(s) < 32 THEN NoParse
  ELSE IF Head(s) = 92 THEN
    IF Len(s) < 2 THEN NoParse
    ELSE IF s[2] \in {34, 92, 47} THEN ParseChars(Drop(s, 2), Append(acc, s[2]))
    ELSE IF s[2] = 98 THEN ParseChars(Drop(s, 2), Append(acc, 8))
    ELSE IF s[2] = 102 THEN ParseChars(Drop(s, 2), Append(acc, 12))
    ELSE IF s[2] = 110 THEN ParseChars(Drop(s, 2), Append(acc, 10))
    ELSE IF s[2] = 114 THEN ParseChars(Drop(s, 2), Append(acc, 13))
    ELSE IF s[2] = 116 THEN ParseChars(Drop(s, 2), Append(acc, 9))
    ELSE NoParse
  ELSE ParseChars(Tail(s), Append(acc, Head(s)))

RECURSIVE ParseDigits(_, _)
ParseDigits(s, acc) ==
  IF s # << >> /\ IsDigit(Head(s))
  THEN ParseDigits(Tail(s), (acc * 10) + (Head(s) - 48))
  ELSE Parsed(JNum(acc), s)

\* An integer: "-"? ("0" | [1-9][0-9]*)
ParseNumber(s) ==
  LET neg == s # << >> /\ Head(s) = 45
      d == IF neg THEN Tail(s) ELSE s
  IN  IF d = << >> \/ ~IsDigit(Head(d)) THEN NoParse
      ELSE LET r == IF Head(d) = 48 THEN Parsed(JNum(0), Tail(d)) ELSE ParseDigits(d, 0)
           IN  IF neg THEN Parsed(JNum(0 - r.val.v), r.rest) ELSE r

RECURSIVE ParseValue(_)
RECURSIVE ParseMembers(_, _)
RECURSIVE ParseElements(_, _)

\* s starts at a member's key; acc holds the members read so far.
ParseMembers(s0, acc) ==
  LET s == SkipWs(s0)
  IN  IF s = << >> \/ Head(s) # 34 THEN NoParse
      ELSE LET k == ParseChars(Tail(s), << >>)
           IN  IF ~k.ok THEN NoParse
               ELSE LET c == SkipWs(k.rest)
                    IN  IF c = << >> \/ Head(c) # 58 THEN NoParse
                        ELSE LET v == ParseValue(Tail(c))
                             IN  IF ~v.ok THEN NoParse
                                 ELSE LET e == SkipWs(v.rest)
                                          acc2 == Append(acc, <<k.val.v, v.val>>)
                                      IN  IF e = << >> THEN NoParse
                                          ELSE IF Head(e) = 125 THEN Parsed(JObj(acc2), Tail(e))
                                          ELSE IF Head(e) = 44 THEN ParseMembers(Tail(e), acc2)
                                          ELSE NoParse

\* s starts at an element; acc holds the elements read so far.
ParseElements(s, acc) ==
  LET v == ParseValue(s)
  IN  IF ~v.ok THEN NoParse
      ELSE LET e == SkipWs(v.rest)
               acc2 == Append(acc, v.val)
           IN  IF e = << >> THEN NoParse
               ELSE IF Head(e) = 93 THEN Parsed(JArr(acc2), Tail(e))
               ELSE IF Head(e) = 44 THEN ParseElements(Tail(e), acc2)
               ELSE NoParse

ParseValue(s0) ==
  LET s == SkipWs(s0)
  IN  IF s = << >> THEN NoParse
      ELSE IF Head(s) = 123 THEN
        LET b == SkipWs(Tail(s))
        IN  IF b # << >> /\ Head(b) = 125 THEN Parsed(JObj(<< >>), Tail(b))
            ELSE ParseMembers(b, << >>)
      ELSE IF Head(s) = 91 THEN
        LET b == SkipWs(Tail(s))
        IN  IF b # << >> /\ Head(b) = 93 THEN Parsed(JArr(<< >>), Tail(b))
            ELSE ParseElements(b, << >>)
      ELSE IF Head(s) = 34 THEN ParseChars(Tail(s), << >>)
      ELSE IF Head(s) = 45 \/ IsDigit(Head(s)) THEN ParseNumber(s)
      ELSE IF StartsWith(s, Txt("true")) THEN Parsed(JBool(TRUE), Drop(s, 4))
      ELSE IF StartsWith(s, Txt("false")) THEN Parsed(JBool(FALSE), Drop(s, 5))
      ELSE IF StartsWith(s, Txt("null")) THEN Parsed(JNull, Drop(s, 4))
      ELSE NoParse

\* JSON.parse: the value, or a SyntaxError (an Error).
JSONParse(text) ==
  LET r == ParseValue(text)
  IN  IF r.ok /\ SkipWs(r.rest) = << >>
      THEN Returned(r.val)
      ELSE Throw(TRUE, "Unexpected token in JSON")

RECURSIVE NatDigits(_)
NatDigits(n) == IF n < 10 THEN <<48 + n>> ELSE NatDigits(n \div 10) \o <<48 + (n % 10)>>

RECURSIVE QuoteChars(_)
QuoteChars(s) ==
  IF s = << >> THEN << >>
  ELSE IF Head(s) \in {34, 92} THEN <<92, Head(s)>> \o QuoteChars(Tail(s))
  ELSE <<Head(s)>> \o QuoteChars(Tail(s))

Quote(s) == <<34>> \o QuoteChars(s) \o <<34>>

RECURSIVE JSONStringify(_)
RECURSIVE StringifyMembers(_)
RECURSIVE StringifyElements(_)

StringifyMembers(m) ==
  IF m = << >> THEN << >>
  ELSE Quote(m[1][1]) \o <<58>> \o JSONStringify(m[1][2])
       \o (IF Len(m) > 1 THEN <<44>> ELSE << >>) \o StringifyMembers(Tail(m))

StringifyElements(e) ==
  IF e = << >> THEN << >>
  ELSE JSONStringify(e[1]) \o (IF Len(e) > 1 THEN <<44>> ELSE << >>)
       \o StringifyElements(Tail(e))

\* JSON.stringify of a JSON value (no indentation).
JSONStringify(j) ==
  IF j.t = "null" THEN Txt("null")
  ELSE IF j.t = "bool" THEN (IF j.v THEN Txt("true") ELSE Txt("false"))
  ELSE IF j.t = "num" THEN (IF j.v < 0 THEN <<45>> \o NatDigits(0 - j.v) ELSE NatDigits(j.v))
  ELSE IF j.t = "str" THEN Quote(j.v)
  ELSE IF j.t = "arr" THEN <<91>> \o StringifyElements(j.v) \o <<93>>
  ELSE <<123>> \o StringifyMembers(j.v) \o <<125>>

\* obj[key] of a parsed object: the last member of that name, else undefined.
RECURSIVE Member(_, _)
Member(members, key) ==
  IF members = << >> THEN Undefined
  ELSE IF members[Len(members)][1] = key THEN Some(members[Len(members)][2])
  ELSE Member(SubSeq(members, 1, Len(members) - 1), key)

(***************************************************************************)
(* Wire schemas                                                            *)
(***************************************************************************)

NetworkSchema ==
  {"base-sepolia", "base", "avalanche-fuji", "avalanche", "iotex", "solana-devnet",
   "solana", "sei", "sei-testnet", "polygon", "polygon-amoy", "peaq", "bsc", "bsc-testnet"}

AuthorizationTypes == {"permit", "eip3009", "permit2"}

IsOneOf(j, names) == j.t = "str" /\ \E n \in names : Txt(n) = j.v

\* PaymentPayloadSchema.parse: {x402Version, scheme, network, payload}, payload a
\* record keyed by authorizationType; unknown top-level keys are dropped.  A
\* failure is a ZodError (an Error).
PaymentPayloadSchema(j) ==
  IF j.t # "obj" THEN Throw(TRUE, "Expected object")
  ELSE LET ver == Member(j.v, Txt("x402Version"))
           sch == Member(j.v, Txt("scheme"))
           net == Member(j.v, Txt("network"))
           pay == Member(j.v, Txt("payload"))
       IN  IF ver = Undefined \/ ver[1].t # "num" THEN Throw(TRUE, "x402Version: Expected number")
           ELSE IF sch = Undefined \/ ~IsOneOf(sch[1], {"exact"}) THEN Throw(TRUE, "scheme: Invalid literal value")
           ELSE IF net = Undefined \/ ~IsOneOf(net[1], NetworkSchema) THEN Throw(TRUE, "network: Invalid enum value")
           ELSE IF pay = Undefined \/ pay[1].t # "obj" THEN Throw(TRUE, "payload: Expected object")
           ELSE LET auth == Member(pay[1].v, Txt("authorizationType"))
                IN  IF auth = Undefined \/ ~IsOneOf(auth[1], AuthorizationTypes)
                    THEN Throw(TRUE, "payload: Invalid discriminator value")
                    ELSE Returned([x402Version |-> ver[1].v, scheme |-> sch[1].v,
                                   network |-> net[1].v, payload |-> pay[1]])

(***************************************************************************)
(* JavaScript truthiness of an optional string, and a || b || c.           *)
(***************************************************************************)

Truthy(o) == o # Undefined /\ o[1] # ""

Or3(a, b, c) == IF Truthy(a) THEN a[1] ELSE IF Truthy(b) THEN b[1] ELSE c

(***************************************************************************)
(* Facilitator client (x402x-facilitator/src/facilitator.ts).  The argument *)
(* of verify and settle is what fetch did: it rejected, or it resolved     *)
(* with a response whose body is read as text (non-2xx) or as JSON (2xx).  *)
(***************************************************************************)

FetchRejected(e) == [kind |-> "rejected", error |-> e]
FetchStatus(status, text) == [kind |-> "response", ok |-> FALSE, status |-> status, text |-> text]
\* json: what response.json() does, Returned(body) or a thrown SyntaxError
FetchOk(json) == [kind |-> "response", ok |-> TRUE, status |-> 200, json |-> json]

ErrorMessageOf(e, fallback) == IF e.isError THEN e.message ELSE fallback

\* verify that takes a body without `success` for a failure.
Facilitator_verify_strict(fetched) ==
  IF fetched.kind = "response" /\ fetched.ok /\ ~fetched.json.thrown
  THEN [success |-> fetched.json.value.success = Some(TRUE),
        payer |-> fetched.json.value.payer, error |-> fetched.json.value.error,
        errorMessage |-> fetched.json.value.errorMessage]
  ELSE [success |-> FALSE, payer |-> Undefined, error |-> Some("Verification error"),
        errorMessage |-> Undefined]

Facilitator_verify(fetched) ==
  IF fetched.kind = "rejected" THEN
    [success |-> FALSE, payer |-> Undefined, error |-> Some("Verification error"),
     errorMessage |-> Some(ErrorMessageOf(fetched.error, "Unknown error"))]
  ELSE IF ~fetched.ok THEN
    [success |-> FALSE, payer |-> Undefined,
     error |-> Some("Verification failed: " \o ToString(fetched.status)),
     errorMessage |-> Some(fetched.text)]
  ELSE IF fetched.json.thrown THEN
    [success |-> FALSE, payer |-> Undefined, error |-> Some("Verification error"),
     errorMessage |-> Some(ErrorMessageOf(fetched.json.error, "Unknown error"))]
  ELSE LET data == fetched.json.value
       IN  [success |-> IF data.success = Undefined THEN TRUE ELSE data.success[1],
            payer |-> data.payer, error |-> data.error, errorMessage |-> data.errorMessage]

\* settle that takes any response for a success.
Facilitator_settle_any(fetched) ==
  [success |-> fetched.kind # "rejected", transaction |-> Undefined, network |-> Undefined,
   error |-> Some("Settlement error"), errorMessage |-> Undefined]

Facilitator_settle(fetched) ==
  IF fetched.kind = "rejected" THEN
    [success |-> FALSE, transaction |-> Undefined, network |-> Undefined,
     error |-> Some("Settlement error"),
     errorMessage |-> Some(ErrorMessageOf(fetched.error, "Unknown error"))]
  ELSE IF ~fetched.ok THEN
    [success |-> FALSE, transaction |-> Undefined, network |-> Undefined,
     error |-> Some("Settlement failed: " \o ToString(fetched.status)),
     errorMessage |-> Some(fetched.text)]
  ELSE IF fetched.json.thrown THEN
    [success |-> FALSE, transaction |-> Undefined, network |-> Undefined,
     error |-> Some("Settlement error"),
     errorMessage |-> Some(ErrorMessageOf(fetched.json.error, "Unknown error"))]
  ELSE LET data == fetched.json.value
       IN  [success |-> IF data.success = Undefined THEN TRUE ELSE data.success[1],
            transaction |-> data.transaction, network |-> data.network,
            error |-> data.error, errorMessage |-> data.errorMessage]

(***************************************************************************)
(* X402Server (x402x-server/src/server.ts)                                 *)
(***************************************************************************)

get402Response(requirements, error, errorStage) ==
  [x402Version |-> 1, accepts |-> <<requirements>>, error |-> error,
   errorStage |-> errorStage]

\* The try block of parse: decode, JSON.parse, schema validation.
DecodePayload(header) ==
  LET decoded == decodeBase64(header)
      json == JSONParse(decoded)
  IN  IF json.thrown THEN json ELSE PaymentPayloadSchema(json.value)

\* parse with the empty header sent on to the decoder.
parse_undefined_only(header, requirements) ==
  IF header = Undefined THEN
    Returned([success |-> FALSE,
              response402 |-> get402Response(requirements,
                                             Some("missing_payment_header"), Undefined)])
  ELSE LET payload == DecodePayload(header[1])
       IN  IF payload.thrown THEN
             Returned([success |-> FALSE,
                       response402 |->
                         get402Response(requirements,
                                        Some(IF payload.error.isError
                                             THEN "invalid_payment_header: " \o payload.error.message
                                             ELSE "invalid_payment_header"),
                                        Undefined)])
           ELSE Returned([success |-> TRUE,
                          data |-> [payload |-> payload.value,
                                    requirements |-> requirements]])

\* parse with the reason left out of the error text.
parse_no_reason(header, requirements) ==
  IF header = Undefined \/ header[1] = << >> THEN
    Returned([success |-> FALSE,
              response402 |-> get402Response(requirements,
                                             Some("missing_payment_header"), Undefined)])
  ELSE LET payload == DecodePayload(header[1])
       IN  IF payload.thrown THEN
             Returned([success |-> FALSE,
                       response402 |-> get402Response(requirements,
                                                      Some("invalid_payment_header"),
                                                      Undefined)])
           ELSE Returned([success |-> TRUE,
                          data |-> [payload |-> payload.value,
                                    requirements |-> requirements]])

parse(header, requirements) ==
  IF header = Undefined \/ header[1] = << >> THEN
    Returned([success |-> FALSE,
              response402 |-> get402Response(requirements,
                                             Some("missing_payment_header"), Undefined)])
  ELSE LET payload == DecodePayload(header[1])
       IN  IF payload.thrown THEN
             Returned([success |-> FALSE,
                       response402 |->
                         get402Response(requirements,
                                        Some(IF payload.error.isError
                                             THEN "invalid_payment_header: " \o payload.error.message
                                             ELSE "invalid_payment_header"),
                                        Undefined)])
           ELSE Returned([success |-> TRUE,
                          data |-> [payload |-> payload.value,
                                    requirements |-> requirements]])

\* JavaScript falsiness of a JSON value.
JFalsy(j) ==
  \/ j.t = "null"
  \/ j.t = "bool" /\ ~j.v
  \/ j.t = "num" /\ j.v = 0
  \/ j.t = "str" /\ j.v = << >>

\* { ...parsed.payload, payload: parsed.payload.payload || {} }, data being `parsed`
facilitatorPayload(data) ==
  [data.payload EXCEPT !.payload = IF JFalsy(@) THEN JObj(<< >>) ELSE @]

\* verifyResult with the facilitator's two error fields read in the other order.
verifyResult_message_first(result) ==
  IF ~result.success THEN
    [success |-> FALSE,
     error |-> Or3(result.errorMessage, result.error, "Verification failed")]
  ELSE IF ~Truthy(result.payer) THEN
    [success |-> FALSE, error |-> "Payer address not found in verification result"]
  ELSE [success |-> TRUE, payer |-> result.payer[1]]

\* verifyResult without the check that a payer came back.
verifyResult_any_payer(result) ==
  IF ~result.success THEN
    [success |-> FALSE,
     error |-> Or3(result.error, result.errorMessage, "Verification failed")]
  ELSE [success |-> TRUE, payer |-> IF result.payer = Undefined THEN "" ELSE result.payer[1]]

\* verify, after the await: what it makes of the facilitator's response.
verifyResult(result) ==
  IF ~result.success THEN
    [success |-> FALSE,
     error |-> Or3(result.error, result.errorMessage, "Verification failed")]
  ELSE IF ~Truthy(result.payer) THEN
    [success |-> FALSE, error |-> "Payer address not found in verification result"]
  ELSE [success |-> TRUE, payer |-> result.payer[1]]

\* verify without its catch block.
verify_uncaught(data, called) ==
  IF called.thrown THEN called ELSE Returned(verifyResult(called.value))

\* called: how this.facilitator.verify(...) completed, Returned(response) or thrown.
verify(data, called) ==
  IF called.thrown THEN
    Returned([success |-> FALSE, error |-> ErrorMessageOf(called.error, "Verification error")])
  ELSE Returned(verifyResult(called.value))

\* settle, after the await: what it makes of the facilitator's response.
settleResult(data, result) ==
  IF ~result.success THEN
    [success |-> FALSE,
     error |-> Or3(result.error, result.errorMessage, "Settlement failed")]
  ELSE IF ~Truthy(result.transaction) THEN
    [success |-> FALSE, error |-> "Transaction hash not found in settlement result"]
  ELSE [success |-> TRUE, txHash |-> result.transaction[1],
        network |-> IF Truthy(result.network) THEN result.network[1]
                    ELSE data.requirements.network]

\* called: how this.facilitator.settle(...) completed.
settle(data, called) ==
  IF called.thrown THEN
    Returned([success |-> FALSE, error |-> ErrorMessageOf(called.error, "Settlement error")])
  ELSE Returned(settleResult(data, called.value))

\* The four results process() builds (server.ts 203-211, 217-222, 229-235, 238-245).
ParseFailure(parseResult) ==
  [success |-> FALSE, status |-> 402, errorStage |-> "parse",
   response |-> [parseResult.response402 EXCEPT !.errorStage = Some("parse")]]

\* VerifyFailure with the status of a settle failure.
VerifyFailure_as_500(requirements, v) ==
  [success |-> FALSE, status |-> 500, errorStage |-> "verify",
   response |-> get402Response(requirements, Some(v.error), Some("verify"))]

VerifyFailure(requirements, v) ==
  [success |-> FALSE, status |-> 402, errorStage |-> "verify",
   response |-> get402Response(requirements, Some(v.error), Some("verify"))]

\* SettleFailure answered like the two client-side stages.
SettleFailure_as_402(requirements, s) ==
  [success |-> FALSE, status |-> 402, errorStage |-> "settle",
   response |-> get402Response(requirements, Some(s.error), Some("settle")),
   error |-> s.error]

SettleFailure(requirements, s) ==
  [success |-> FALSE, status |-> 500, errorStage |-> "settle",
   response |-> get402Response(requirements, Some(s.error), Some("settle")),
   error |-> s.error]

\* Success with the payer written into both fields.
Success_payer_twice(v, s) ==
  [success |-> TRUE, status |-> 200,
   data |-> [payer |-> v.payer, txHash |-> v.payer]]

Success(v, s) ==
  [success |-> TRUE, status |-> 200,
   data |-> [payer |-> v.payer, txHash |-> s.txHash]]

(***************************************************************************)
(* Inputs                                                                  *)
(***************************************************************************)

\* How many process() calls one behaviour makes.
MaxRequests == 2

Requirements ==
  {[scheme |-> "exact", network |-> "bsc", maxAmountRequired |-> "1000",
    payTo |-> "0xMERCHANT", asset |-> "0xUSDC", maxTimeoutSeconds |-> 300,
    paymentType |-> "permit"],
   [scheme |-> "exact", network |-> "base", maxAmountRequired |-> "25",
    payTo |-> "0xMERCHANT", asset |-> "0xDAI", maxTimeoutSeconds |-> 60,
    paymentType |-> "eip3009"]}

PayloadJson(scheme, network, auth) ==
  JObj(<< <<Txt("x402Version"), JNum(1)>>,
          <<Txt("scheme"), JStr(Txt(scheme))>>,
          <<Txt("network"), JStr(Txt(network))>>,
          <<Txt("payload"), JObj(<< <<Txt("authorizationType"), JStr(Txt(auth))>>,
                                    <<Txt("signature"), JStr(Txt("0xsig"))>> >>)>> >>)

\* A payload whose authorization carries a two-byte UTF-8 character, a quote
\* and a backslash in its signature, and a nested array under the key "v".
PayloadEscaped ==
  JObj(<< <<Txt("x402Version"), JNum(1)>>,
          <<Txt("scheme"), JStr(Txt("exact"))>>,
          <<Txt("network"), JStr(Txt("bsc"))>>,
          <<Txt("payload"), JObj(<< <<Txt("authorizationType"), JStr(Txt("permit2"))>>,
                                    <<Txt("signature"), JStr(<<48, 120, 233, 34, 92>>)>>,
                                    <<(<<118>>), JArr(<<JNum(0 - 7), JBool(TRUE), JNull>>)>> >>)>> >>)

\* Payloads a client sends that satisfy the schema.
ValidPayloads ==
  {PayloadJson("exact", "bsc", "permit"), PayloadJson("exact", "base", "eip3009"),
   PayloadEscaped}

\* JSON values a client sends that do not.
InvalidPayloads ==
  {PayloadJson("upto", "bsc", "permit"), PayloadJson("exact", "mars", "permit2"),
   JNull, JArr(<<JNum(1)>>)}

\* base64(json(payload)), as the fetch wrapper sends it.
HeaderOf(j) == encodeBase64(JSONStringify(j))

\* The text of a JSON value cut short: Base64 of something that is no JSON.
Truncated(j) == encodeBase64(SubSeq(JSONStringify(j), 1, Len(JSONStringify(j)) - 1))

ValidHeaders ==
  {Some(HeaderOf(j)) : j \in ValidPayloads}
  \cup {Some(DataUrlPrefix \o HeaderOf(j)) : j \in ValidPayloads}

SchemaInvalidHeaders == {Some(HeaderOf(j)) : j \in InvalidPayloads}

NotJsonHeaders ==
  {Some(Txt("invalid-base64")), Some(Truncated(PayloadJson("exact", "bsc", "permit")))}

Headers ==
  {Undefined, Some(<< >>)} \cup NotJsonHeaders \cup SchemaInvalidHeaders \cup ValidHeaders

Errors ==
  {[isError |-> TRUE, message |-> "fetch failed"],
   [isError |-> FALSE, message |-> "aborted"]}

OptBool == {Undefined, Some(TRUE), Some(FALSE)}

VerifyBodies ==
  [success : OptBool,
   payer : {Undefined, Some(""), Some("0xPAYER1"), Some("0xPAYER2")},
   error : {Undefined, Some(""), Some("invalid_signature")},
   errorMessage : {Undefined, Some("signature does not match")}]

SettleBodies ==
  [success : OptBool,
   transaction : {Undefined, Some(""), Some("0xTX1"), Some("0xTX2")},
   network : {Undefined, Some("bsc")},
   error : {Undefined, Some(""), Some("insufficient_gas")},
   errorMessage : {Undefined, Some("out of gas")}]

Fetched(bodies) ==
  {FetchRejected(e) : e \in Errors}
  \cup {FetchStatus(500, "Internal Server Error")}
  \cup {FetchOk(Throw(TRUE, "Unexpected end of JSON input"))}
  \cup {FetchOk(Returned(b)) : b \in bodies}

\* What the facilitator object does when called: the client of facilitator.ts
\* over some fetch outcome, or (an object standing in for it) a rejection.
FacilitatorBehaviours(bodies) ==
  {[via |-> "client", fetched |-> f] : f \in Fetched(bodies)}
  \cup {[via |-> "rejects", error |-> e] : e \in Errors}

CallVerify(b) ==
  IF b.via = "client" THEN Returned(Facilitator_verify(b.fetched))
  ELSE [thrown |-> TRUE, error |-> b.error]

CallSettle(b) ==
  IF b.via = "client" THEN Returned(Facilitator_settle(b.fetched))
  ELSE [thrown |-> TRUE, error |-> b.error]

serverVars == <<pc, paymentHeader, expectedRequirements, parsed, verifyBehaviour, verified,
                settleBehaviour, settled, calls, outcome, nRequests>>

detectorVars == <<cache, chain, tasks, stats, nCalls>>

builderVars == <<building, thisNetwork, nBuilds>>

gateVars == <<gate, options, nGated>>

clientVars == <<client>>

warmVars == <<warmup>>

probeVars == <<probing>>

vars == <<serverVars, detectorVars, builderVars, gateVars, clientVars, warmVars, probeVars>>

\* The detector's method calls run in these slots, side by side: one caller of
\* the detecting methods, one caller of clearCache.
Tasks == {"detecting", "clearing"}

IdleTask == [op |-> "idle", arg |-> << >>, subs |-> << >>, out |-> Undefined]

\* No createRequirements() call yet.
IdleBuild ==
  [pc |-> "idle", config |-> Undefined, network |-> Undefined, result |-> Undefined,
   paymentType |-> Undefined, lookups |-> 0, detections |-> 0, supported |-> 0,
   supportedResponse |-> Undefined, out |-> Undefined]

\* No run of the middleware yet.
IdleGate ==
  [pc |-> "idle", header |-> Undefined, result |-> Undefined, x402 |-> Undefined,
   response |-> Undefined, called |-> << >>, caught |-> Undefined, log |-> << >>]

\* A server used without the middleware.
NoMiddleware ==
  /\ gate = IdleGate
  /\ options = [framework |-> "express", on402 |-> FALSE, onPaymentSuccess |-> FALSE,
                onError |-> FALSE]
  /\ nGated = 0

\* new X402Server({client, facilitator, network})
NewServer(network) ==
  /\ building = IdleBuild
  /\ thisNetwork = network
  /\ nBuilds = 0

\* A detector nobody has called yet, behind a node of the given chain.
NewDetector(chainId) ==
  /\ cache = << >>
  /\ chain = chainId
  /\ tasks = [t \in Tasks |-> IdleTask]
  /\ stats = Undefined
  /\ nCalls = 0

\* No call of the facilitator client yet.
IdleCall == [pc |-> "idle", op |-> "none", fetched |-> Undefined, out |-> Undefined]

\* No X402Server.initialize() call yet.
IdleWarmup ==
  [pc |-> "idle", tokens |-> << >>, answers |-> << >>, before |-> << >>, out |-> Undefined]

\* No detectTokenPaymentMethods() run yet.  `code` is the bytecode deployed at
\* the token's address, `probe` the probe that runs, `reads` the reads the
\* probe issued so far, `impl` what getImplementationAddress returned to it,
\* `value` what it returned, `probes` the probes that returned before it.
IdleProbe ==
  [pc |-> "idle", token |-> << >>, code |-> Undefined, chainId |-> 0, probe |-> "none",
   reads |-> << >>, impl |-> Undefined, value |-> Undefined, probes |-> << >>,
   out |-> Undefined]

\* A server with no process() call running.
NoRequest ==
  /\ client = IdleCall
  /\ warmup = IdleWarmup
  /\ probing = IdleProbe
  /\ pc = "idle"
  /\ paymentHeader = Undefined
  /\ expectedRequirements = Undefined
  /\ parsed = Undefined
  /\ verifyBehaviour = Undefined
  /\ verified = Undefined
  /\ settleBehaviour = Undefined
  /\ settled = Undefined
  /\ calls = << >>
  /\ outcome = Undefined
  /\ nRequests = 0

Request(op, data) ==
  [op |-> op, payload |-> facilitatorPayload(data), requirements |-> data.requirements]

Init == NoRequest /\ NewDetector(56) /\ NewServer(Undefined) /\ NoMiddleware

\* process(): stage 1, up to the await of facilitator.verify.
process_parse(header, requirements) ==
  /\ pc = "idle"
  /\ nRequests < MaxRequests
  /\ paymentHeader' = header
  /\ expectedRequirements' = Some(requirements)
  /\ LET p == parse(header, requirements)
     IN  IF p.thrown THEN
           /\ parsed' = Undefined
           /\ outcome' = Some(p)
           /\ calls' = << >>
           /\ pc' = "done"
         ELSE IF ~p.value.success THEN
           /\ parsed' = Some(p.value)
           /\ outcome' = Some(Returned(ParseFailure(p.value)))
           /\ calls' = << >>
           /\ pc' = "done"
         ELSE
           /\ parsed' = Some(p.value)
           /\ outcome' = Undefined
           /\ calls' = <<Request("verify", p.value.data)>>
           /\ pc' = "verify"
  /\ UNCHANGED <<verifyBehaviour, verified, settleBehaviour, settled, nRequests>>
  /\ UNCHANGED <<detectorVars, builderVars>>

\* process(): facilitator.verify completes; stage 2, up to the await of settle.
process_verify(behaviour) ==
  /\ pc = "verify"
  /\ verifyBehaviour' = Some(behaviour)
  /\ LET v == verify(parsed[1].data, CallVerify(behaviour))
     IN  IF v.thrown THEN
           /\ verified' = Undefined
           /\ outcome' = Some(v)
           /\ UNCHANGED calls
           /\ pc' = "done"
         ELSE IF ~v.value.success THEN
           /\ verified' = Some(v.value)
           /\ outcome' = Some(Returned(VerifyFailure(expectedRequirements[1], v.value)))
           /\ UNCHANGED calls
           /\ pc' = "done"
         ELSE
           /\ verified' = Some(v.value)
           /\ outcome' = Undefined
           /\ calls' = Append(calls, Request("settle", parsed[1].data))
           /\ pc' = "settle"
  /\ UNCHANGED <<paymentHeader, expectedRequirements, parsed, settleBehaviour, settled,
                 nRequests>>
  /\ UNCHANGED <<detectorVars, builderVars, gateVars, clientVars, warmVars, probeVars>>

\* process(): facilitator.settle completes; stage 3 and the result.
process_settle(behaviour) ==
  /\ pc = "settle"
  /\ settleBehaviour' = Some(behaviour)
  /\ LET s == settle(parsed[1].data, CallSettle(behaviour))
     IN  IF s.thrown THEN
           /\ settled' = Undefined
           /\ outcome' = Some(s)
         ELSE IF ~s.value.success THEN
           /\ settled' = Some(s.value)
           /\ outcome' = Some(Returned(SettleFailure(expectedRequirements[1], s.value)))
         ELSE
           /\ settled' = Some(s.value)
           /\ outcome' = Some(Returned(Success(verified[1], s.value)))
  /\ pc' = "done"
  /\ UNCHANGED <<paymentHeader, expectedRequirements, parsed, verifyBehaviour, verified,
                 calls, nRequests>>
  /\ UNCHANGED <<detectorVars, builderVars, gateVars, clientVars, warmVars, probeVars>>

\* The caller takes the result; the server is ready for the next call.
process_return ==
  /\ pc = "done"
  /\ pc' = "idle"
  /\ paymentHeader' = Undefined
  /\ expectedRequirements' = Undefined
  /\ parsed' = Undefined
  /\ verifyBehaviour' = Undefined
  /\ verified' = Undefined
  /\ settleBehaviour' = Undefined
  /\ settled' = Undefined
  /\ calls' = << >>
  /\ outcome' = Undefined
  /\ nRequests' = nRequests + 1
  /\ UNCHANGED <<detectorVars, builderVars>>

Next ==
  \/ \E h \in Headers, r \in Requirements : process_parse(h, r) /\ UNCHANGED <<gateVars, clientVars, warmVars, probeVars>>
  \/ \E b \in FacilitatorBehaviours(VerifyBodies) : process_verify(b)
  \/ \E b \in FacilitatorBehaviours(SettleBodies) : process_settle(b)
  \/ process_return /\ UNCHANGED <<gateVars, clientVars, warmVars, probeVars>>

Spec == Init /\ [][Next]_vars

(***************************************************************************)
(* Properties of process()                                                 *)
(***************************************************************************)

\* What the try block of parse does with each header string the model sends
\* (tabulated once: @@ makes the function explicit).
Decoded == [h \in {o[1] : o \in Headers \ {Undefined}} |-> DecodePayload(h)] @@ << >>

Done == pc = "done"
HasReturned == Done /\ outcome # Undefined /\ ~outcome[1].thrown
Result == outcome[1].value

\* The header is a non-empty string.
HeaderPresent == paymentHeader # Undefined /\ paymentHeader[1] # << >>

\* What the facilitator object gave back to the running call.
VerifyCalled == CallVerify(verifyBehaviour[1])
SettleCalled == CallSettle(settleBehaviour[1])

VerifyAccepted ==
  /\ verifyBehaviour # Undefined
  /\ ~VerifyCalled.thrown
  /\ VerifyCalled.value.success
  /\ Truthy(VerifyCalled.value.payer)

SettleAccepted ==
  /\ settleBehaviour # Undefined
  /\ ~SettleCalled.thrown
  /\ SettleCalled.value.success
  /\ Truthy(SettleCalled.value.transaction)

Ops(log) == [i \in 1..Len(log) |-> log[i].op]

Body(error, stage) ==
  [x402Version |-> 1, accepts |-> <<expectedRequirements[1]>>, error |-> Some(error),
   errorStage |-> Some(stage)]

C2_CallsInOrder ==
  /\ Ops(calls) \in {<< >>, <<"verify">>, <<"verify", "settle">>}
  /\ calls # << >> => HeaderPresent /\ ~Decoded[paymentHeader[1]].thrown
  /\ Len(calls) = 2 => VerifyAccepted
  /\ verifyBehaviour # Undefined => calls # << >>
  /\ settleBehaviour # Undefined => Len(calls) = 2
  /\ HasReturned /\ ~Result.success /\ Result.errorStage = "parse" =>
       calls = << >> /\ verifyBehaviour = Undefined /\ settleBehaviour = Undefined
  /\ HasReturned /\ ~Result.success /\ Result.errorStage = "verify" =>
       Ops(calls) = <<"verify">> /\ settleBehaviour = Undefined

\* C2, the step part: a call only moves forward through its stages, and a
\* request once issued stays issued until the call returns.
C2_ForwardStep ==
  /\ pc = "idle" => pc' \in {"verify", "done"}
  /\ pc = "verify" => pc' \in {"settle", "done"} /\ verifyBehaviour = Undefined
  /\ pc = "settle" => pc' = "done" /\ settleBehaviour = Undefined
  /\ pc = "done" => pc' = "idle"
  /\ pc # "done" => Len(calls') >= Len(calls) /\ SubSeq(calls', 1, Len(calls)) = calls

\* C2: within one process() call the stages run in the order parse, verify,
\* settle, each facilitator call happens at most once, and no stage is retried.
C2_StagesInOrder == [](C2_CallsInOrder) /\ [][C2_ForwardStep]_vars

\* C2 witness: a call that went through all three stages.
C2_Witness == Done /\ Ops(calls) = <<"verify", "settle">> /\ settleBehaviour # Undefined

\* C3: process() never throws: whatever the header and whatever the
\* facilitator does, a finished call has returned a ProcessResult.
C3_NeverThrows ==
  Done => /\ HasReturned
          /\ Result.status \in {200, 402, 500}
          /\ Result.success = (Result.status = 200)

\* C3 witness: the facilitator's settle was rejected with a thrown non-Error
\* value and the call has finished.
C3_Witness ==
  /\ Done
  /\ settleBehaviour # Undefined
  /\ settleBehaviour[1].via = "rejects"
  /\ ~settleBehaviour[1].error.isError

\* The facilitator's settle did not produce a settlement.
SettleFailed ==
  /\ settleBehaviour # Undefined
  /\ \/ SettleCalled.thrown
     \/ ~SettleCalled.value.success
     \/ ~Truthy(SettleCalled.value.transaction)

VerifyRefused ==
  verifyBehaviour # Undefined /\ ~VerifyCalled.thrown /\ ~VerifyCalled.value.success

\* C5: when the facilitator's verify returns a non-success response for a
\* well-formed header, the result is 402 with stage verify, accepts =
\* [expectedRequirements], and as error the facilitator's text (its error field,
\* else its errorMessage field); settle is not attempted.
C5_VerifyFailureIs402 ==
  Done /\ VerifyRefused =>
    /\ HasReturned
    /\ ~Result.success
    /\ Result.status = 402
    /\ Result.errorStage = "verify"
    /\ Result.response.accepts = <<expectedRequirements[1]>>
    /\ Result.response.x402Version = 1
    /\ Result.response.errorStage = Some("verify")
    /\ Result.response.error =
         Some(Or3(VerifyCalled.value.error, VerifyCalled.value.errorMessage,
                  "Verification failed"))
    /\ Ops(calls) = <<"verify">>
    /\ settleBehaviour = Undefined

\* C5 witness: a 2xx verify body {success:false, error:"invalid_signature",
\* errorMessage} and the call has finished.
C5_Witness ==
  /\ Done /\ VerifyRefused
  /\ verifyBehaviour[1].fetched.kind = "response"
  /\ verifyBehaviour[1].fetched.ok
  /\ VerifyCalled.value.error = Some("invalid_signature")
  /\ VerifyCalled.value.errorMessage # Undefined

\* The facilitator's verify reported success without a payer address.
VerifyWithoutPayer ==
  /\ verifyBehaviour # Undefined
  /\ ~VerifyCalled.thrown
  /\ VerifyCalled.value.success
  /\ ~Truthy(VerifyCalled.value.payer)

\* C6: a verify that reports success without a payer address counts as a
\* failed verify: 402, stage verify, error "Payer address not found in
\* verification result", and settle is never called.
C6_NoPayerNoSettle ==
  VerifyWithoutPayer =>
    /\ pc = "done"
    /\ HasReturned
    /\ ~Result.success
    /\ Result.status = 402
    /\ Result.errorStage = "verify"
    /\ Result.response.error = Some("Payer address not found in verification result")
    /\ Ops(calls) = <<"verify">>
    /\ settleBehaviour = Undefined

\* C6 witness: the verify body was {success:true} with no payer field.
C6_Witness ==
  /\ Done /\ VerifyWithoutPayer
  /\ verifyBehaviour[1].fetched.json.value.success = Some(TRUE)
  /\ verifyBehaviour[1].fetched.json.value.payer = Undefined

\* C7: a 200 result carries the payer the facilitator's verify returned in this
\* call and the transaction its settle returned in this call, and both calls
\* reported success.
C7_SuccessData ==
  HasReturned /\ Result.success =>
    /\ VerifyAccepted
    /\ SettleAccepted
    /\ Result.status = 200
    /\ Result.data.payer = VerifyCalled.value.payer[1]
    /\ Result.data.txHash = SettleCalled.value.transaction[1]

\* C7 witness: a second call that succeeded with payer 0xPAYER2 and hash 0xTX1.
C7_Witness ==
  /\ HasReturned /\ Result.success /\ nRequests > 0
  /\ Result.data = [payer |-> "0xPAYER2", txHash |-> "0xTX1"]

\* C8: for an absent header and for the empty string, parse fails with
\* missing_payment_header and process returns {success:false, status:402,
\* errorStage:"parse", response:{x402Version:1, accepts:[requirements],
\* error:"missing_payment_header", errorStage:"parse"}} without contacting the
\* facilitator.
C8_MissingHeader ==
  expectedRequirements # Undefined /\ ~HeaderPresent =>
    /\ pc = "done"
    /\ parsed = Some([success |-> FALSE,
                      response402 |-> [x402Version |-> 1,
                                       accepts |-> <<expectedRequirements[1]>>,
                                       error |-> Some("missing_payment_header"),
                                       errorStage |-> Undefined]])
    /\ outcome = Some(Returned([success |-> FALSE, status |-> 402, errorStage |-> "parse",
                                response |-> Body("missing_payment_header", "parse")]))
    /\ calls = << >>
    /\ verifyBehaviour = Undefined
    /\ settleBehaviour = Undefined

\* C8 witness: a call with the empty string as header has finished.
C8_Witness == Done /\ paymentHeader = Some(<< >>)

\* The header is a non-empty string whose decoding, JSON parsing or schema
\* validation fails.
HeaderInvalid == HeaderPresent /\ Decoded[paymentHeader[1]].thrown

C10_BareInvalidHeader ==
  parsed # Undefined /\ paymentHeader = Some(Txt("invalid-base64")) =>
    /\ ~parsed[1].success
    /\ parsed[1].response402.error = Some("invalid_payment_header")

(***************************************************************************)
(* C11.  Round trip of parse.                                              *)
(***************************************************************************)

\* The payload a client holds, as the record parse hands on: the four fields
\* of the JSON value j.
PayloadOf(j) ==
  [x402Version |-> Member(j.v, Txt("x402Version"))[1].v,
   scheme |-> Member(j.v, Txt("scheme"))[1].v,
   network |-> Member(j.v, Txt("network"))[1].v,
   payload |-> Member(j.v, Txt("payload"))[1]]

\* base64(json(j)) of every payload that satisfies the schema.
Encoded == [j \in ValidPayloads |-> HeaderOf(j)] @@ << >>

\* The running call's header is base64(json(j)), bare or behind the data URL prefix.
HeaderCarries(j) ==
  \/ paymentHeader = Some(Encoded[j])
  \/ paymentHeader = Some(DataUrlPrefix \o Encoded[j])

\* C11: for every payload that satisfies the schema and every requirements r,
\* parse(base64(json(payload)), r), with or without the data URL prefix,
\* succeeds with data.payload equal to the payload and data.requirements = r.
C11_ParseRoundTrip ==
  \A j \in ValidPayloads :
    parsed # Undefined /\ HeaderCarries(j) =>
      /\ parsed[1].success
      /\ parsed[1].data.payload = PayloadOf(j)
      /\ parsed[1].data.requirements = expectedRequirements[1]

C11_Witness ==
  /\ parsed # Undefined
  /\ paymentHeader = Some(DataUrlPrefix \o Encoded[PayloadEscaped])
  /\ parsed[1].success
  /\ parsed[1].data.payload.payload.v[2][2] = JStr(<<48, 120, 233, 34, 92>>)

(***************************************************************************)
(* Token detector (typescript/packages/x402x-detector).  Addresses, hex    *)
(* data and cache keys are inspected character by character, so they are   *)
(* sequences of character codes.  An RPC read is answered by the node:     *)
(* Returned(value), or a thrown error.  A detection reports, besides its   *)
(* result, the kinds of RPC read it issued.                                *)
(***************************************************************************)

\* String.prototype.toLowerCase on the ASCII letters.
toLowerCase(str) == [i \in 1..Len(str) |-> IF str[i] >= 65 /\ str[i] <= 90 THEN str[i] + 32 ELSE str[i]]

\* String.prototype.includes
includes(str, search) ==
  \E i \in 0..(Len(str) - Len(search)) : SubSeq(str, i + 1, i + Len(search)) = search

\* String.prototype.slice(-n)
sliceLast(str, n) == IF Len(str) <= n THEN str ELSE SubSeq(str, Len(str) - n + 1, Len(str))

\* "0xe3ee160e"
EIP3009_SIGNATURES_1 ==
  <<48, 120, 101, 51, 101, 101, 49, 54, 48, 101>>
\* "0xcf092995"
EIP3009_SIGNATURES_2 ==
  <<48, 120, 99, 102, 48, 57, 50, 57, 57, 53>>
EIP3009_SIGNATURES == <<EIP3009_SIGNATURES_1, EIP3009_SIGNATURES_2>>

\* "0xd505accf"
EIP2612_PERMIT ==
  <<48, 120, 100, 53, 48, 53, 97, 99, 99, 102>>

\* "0x000000000022D473030F116dDEE9F6B43aC78BA3"
PERMIT2_ADDRESS ==
  <<48, 120, 48, 48, 48, 48, 48, 48, 48, 48, 48, 48, 50, 50, 68, 52, 55, 51,
    48, 51, 48, 70, 49, 49, 54, 100, 68, 69, 69, 57, 70, 54, 66, 52, 51, 97,
    67, 55, 56, 66, 65, 51>>

\* "0x, 64 zeros: an empty storage slot"
ZeroWord ==
  <<48, 120, 48, 48, 48, 48, 48, 48, 48, 48, 48, 48, 48, 48, 48, 48, 48, 48,
    48, 48, 48, 48, 48, 48, 48, 48, 48, 48, 48, 48, 48, 48, 48, 48, 48, 48,
    48, 48, 48, 48, 48, 48, 48, 48, 48, 48, 48, 48, 48, 48, 48, 48, 48, 48,
    48, 48, 48, 48, 48, 48, 48, 48, 48, 48, 48, 48>>

\* "0x, 40 zeros"
ZeroAddress ==
  <<48, 120, 48, 48, 48, 48, 48, 48, 48, 48, 48, 48, 48, 48, 48, 48, 48, 48,
    48, 48, 48, 48, 48, 48, 48, 48, 48, 48, 48, 48, 48, 48, 48, 48, 48, 48,
    48, 48, 48, 48, 48, 48>>

\* "0x8d0d000ee44948fc98c9b98a4fa4921476f08b0d"
WLFI ==
  <<48, 120, 56, 100, 48, 100, 48, 48, 48, 101, 101, 52, 52, 57, 52, 56, 102,
    99, 57, 56, 99, 57, 98, 57, 56, 97, 52, 102, 97, 52, 57, 50, 49, 52, 55,
    54, 102, 48, 56, 98, 48, 100>>

\* PRESET_TOKEN_CAPABILITIES[address]: the preset of a token, else undefined.
PRESET_TOKEN_CAPABILITIES_none(address) == Undefined

PRESET_TOKEN_CAPABILITIES(address) ==
  IF address = WLFI
  THEN Some([supportedMethods |-> <<"permit">>, supportedNetworks |-> {56},
             description |-> "World Liberty Financial USD (WLFI)"])
  ELSE Undefined

RpcKinds == {"getChainId", "getCode", "getStorageAt", "readContract"}

\* `value && value !== zero` for the answer of a storage or address read.
NonZero(value, zero) == value # Undefined /\ value[1] # << >> /\ value[1] # zero

\* SlotAddress that takes whatever the slot holds for an address.
SlotAddress_unchecked(answer) ==
  IF ~answer.thrown /\ answer.value # Undefined
  THEN Some(<<48, 120>> \o sliceLast(answer.value[1], 40))
  ELSE Undefined

\* An implementation address read from a storage slot: its last 20 bytes.
SlotAddress(answer) ==
  IF ~answer.thrown /\ NonZero(answer.value, ZeroWord)
  THEN LET implAddress == <<48, 120>> \o sliceLast(answer.value[1], 40)
       IN  IF implAddress # ZeroAddress THEN Some(implAddress) ELSE Undefined
  ELSE Undefined

\* getImplementationAddress: EIP-1967 slot, EIP-1822 slot, implementation(),
\* the first that names a non-zero address; null (undefined here) otherwise.
getImplementationAddress(slot1967, slot1822, implementation) ==
  IF SlotAddress(slot1967) # Undefined
  THEN [value |-> SlotAddress(slot1967), rpc |-> {"getStorageAt"}]
  ELSE IF SlotAddress(slot1822) # Undefined
  THEN [value |-> SlotAddress(slot1822), rpc |-> {"getStorageAt"}]
  ELSE IF ~implementation.thrown /\ NonZero(implementation.value, ZeroAddress)
  THEN [value |-> implementation.value, rpc |-> {"getStorageAt", "readContract"}]
  ELSE [value |-> Undefined, rpc |-> {"getStorageAt", "readContract"}]

\* SomeSelectorIn that compares the characters as they are.
SomeSelectorIn_exact(code, methodSelectors) ==
  \E k \in 1..Len(methodSelectors) : includes(code, Drop(methodSelectors[k], 2))

\* methodSelectors.some(selector => code.toLowerCase().includes(selector.slice(2).toLowerCase()))
SomeSelectorIn(code, methodSelectors) ==
  \E k \in 1..Len(methodSelectors) :
    includes(toLowerCase(code), toLowerCase(Drop(methodSelectors[k], 2)))

\* hasAnyMethod: the token's bytecode, else its implementation's, holds one of
\* the selectors; every failed read counts as "no".
hasAnyMethod(methodSelectors, code, impl, implCode) ==
  IF code.thrown THEN [value |-> FALSE, rpc |-> {"getCode"}]
  ELSE IF code.value = Undefined \/ code.value[1] = << >> THEN [value |-> FALSE, rpc |-> {"getCode"}]
  ELSE IF SomeSelectorIn(code.value[1], methodSelectors) THEN [value |-> TRUE, rpc |-> {"getCode"}]
  ELSE IF impl.value = Undefined THEN [value |-> FALSE, rpc |-> {"getCode"} \cup impl.rpc]
  ELSE IF implCode.thrown THEN [value |-> FALSE, rpc |-> {"getCode"} \cup impl.rpc]
  ELSE IF implCode.value = Undefined \/ implCode.value[1] = << >>
  THEN [value |-> FALSE, rpc |-> {"getCode"} \cup impl.rpc]
  ELSE [value |-> SomeSelectorIn(implCode.value[1], methodSelectors),
        rpc |-> {"getCode"} \cup impl.rpc]

\* hasMethod: the same search for one selector.
hasMethod(methodSelector, code, impl, implCode) ==
  IF code.thrown THEN [value |-> FALSE, rpc |-> {"getCode"}]
  ELSE IF code.value = Undefined \/ code.value[1] = << >> THEN [value |-> FALSE, rpc |-> {"getCode"}]
  ELSE IF includes(toLowerCase(code.value[1]), toLowerCase(Drop(methodSelector, 2)))
  THEN [value |-> TRUE, rpc |-> {"getCode"}]
  ELSE IF impl.value = Undefined THEN [value |-> FALSE, rpc |-> {"getCode"} \cup impl.rpc]
  ELSE IF implCode.thrown THEN [value |-> FALSE, rpc |-> {"getCode"} \cup impl.rpc]
  ELSE IF implCode.value = Undefined \/ implCode.value[1] = << >>
  THEN [value |-> FALSE, rpc |-> {"getCode"} \cup impl.rpc]
  ELSE [value |-> includes(toLowerCase(implCode.value[1]), toLowerCase(Drop(methodSelector, 2))),
        rpc |-> {"getCode"} \cup impl.rpc]

\* checkPermit2Support: the Permit2 contract has bytecode on this chain.
checkPermit2Support(permit2Code) ==
  [value |-> ~permit2Code.thrown /\ permit2Code.value # Undefined /\ permit2Code.value[1] # << >>,
   rpc |-> {"getCode"}]

\* array.includes(x)
Has(array, x) == \E i \in 1..Len(array) : array[i] = x

\* `${error}`
ErrorText(error) == IF error.isError THEN "Error: " \o error.message ELSE error.message

\* detectTokenPaymentMethods; chainId is the node's answer to getChainId, the
\* other three are the outcomes of the probes the function starts when the
\* token has no preset.
detectTokenPaymentMethods(tokenAddress, chainId, eip3009, permit, permit2) ==
  LET address == toLowerCase(tokenAddress)
      presetCapabilities == PRESET_TOKEN_CAPABILITIES(address)
  IN  IF chainId.thrown THEN [result |-> chainId, rpc |-> {"getChainId"}]
      ELSE IF presetCapabilities # Undefined THEN
        IF chainId.value = 0 \/ chainId.value \notin presetCapabilities[1].supportedNetworks
        THEN [result |-> Returned([address |-> address, supportedMethods |-> << >>,
                                   details |-> [hasEIP3009 |-> FALSE, hasPermit |-> FALSE,
                                                hasPermit2Approval |-> FALSE]]),
              rpc |-> {"getChainId"}]
        ELSE LET methods == presetCapabilities[1].supportedMethods
             IN  [result |-> Returned([address |-> address, supportedMethods |-> methods,
                                       details |-> [hasEIP3009 |-> Has(methods, "eip3009"),
                                                    hasPermit |-> Has(methods, "permit"),
                                                    hasPermit2Approval |->
                                                      Has(methods, "permit2")
                                                      \/ Has(methods, "permit2-witness")]]),
                  rpc |-> {"getChainId"}]
      ELSE [result |-> Returned([address |-> address,
                                 supportedMethods |->
                                   (IF eip3009.value THEN <<"eip3009">> ELSE << >>)
                                   \o (IF permit.value THEN <<"permit">> ELSE << >>)
                                   \o (IF permit2.value THEN <<"permit2", "permit2-witness">> ELSE << >>),
                                 details |-> [hasEIP3009 |-> eip3009.value,
                                              hasPermit |-> permit.value,
                                              hasPermit2Approval |-> permit2.value]]),
            rpc |-> {"getChainId"} \cup eip3009.rpc \cup permit.rpc \cup permit2.rpc]

\* getTokenInfo; impl is the outcome of getImplementationAddress (used for a
\* log line only), the others are the node's answers to name(),
\* eip712Domain() and version().  `failed` names the reads of the three that
\* were issued and failed.
getTokenInfo(tokenAddress, impl, name, eip712Domain, version) ==
  IF name.thrown
  THEN [result |-> Throw(TRUE, "Failed to get token info: " \o ErrorText(name.error)),
        rpc |-> impl.rpc \cup {"readContract"}, failed |-> {"name"}]
  ELSE [result |-> Returned([name |-> name.value,
                             version |-> IF ~eip712Domain.thrown THEN eip712Domain.value[3]
                                         ELSE IF ~version.thrown THEN version.value
                                         ELSE "1"]),
        rpc |-> impl.rpc \cup {"readContract"},
        failed |-> IF ~eip712Domain.thrown THEN {}
                   ELSE IF ~version.thrown THEN {"eip712Domain"}
                   ELSE {"eip712Domain", "version"}]

\* The answers of the node.
RpcError == [isError |-> TRUE, message |-> "RPC request failed"]

\* "0x6080E3EE160E5b: bytecode holding the first EIP-3009 selector, in capitals"
CodeEIP3009 ==
  <<48, 120, 54, 48, 56, 48, 69, 51, 69, 69, 49, 54, 48, 69, 53, 98>>
\* "0x6080d505accf5b: bytecode holding the permit selector"
CodePermit ==
  <<48, 120, 54, 48, 56, 48, 100, 53, 48, 53, 97, 99, 99, 102, 53, 98>>
\* "0x363d3d373d3d: bytecode of a proxy, holding no selector"
CodeProxy ==
  <<48, 120, 51, 54, 51, 100, 51, 100, 51, 55, 51, 100, 51, 100>>
\* "0x60cf09299560d505accf: bytecode holding the second EIP-3009 selector and the permit selector"
CodeImplementation ==
  <<48, 120, 54, 48, 99, 102, 48, 57, 50, 57, 57, 53, 54, 48, 100, 53, 48,
    53, 97, 99, 99, 102>>
\* "0x43506849d7c04f9138d1a2050bbf3a0c054402dd"
ImplementationAddress ==
  <<48, 120, 52, 51, 53, 48, 54, 56, 52, 57, 100, 55, 99, 48, 52, 102, 57,
    49, 51, 56, 100, 49, 97, 50, 48, 53, 48, 98, 98, 102, 51, 97, 48, 99, 48,
    53, 52, 52, 48, 50, 100, 100>>
\* "0x, 24 zeros, the implementation address: a storage slot naming it"
SlotWithImplementation ==
  <<48, 120, 48, 48, 48, 48, 48, 48, 48, 48, 48, 48, 48, 48, 48, 48, 48, 48,
    48, 48, 48, 48, 48, 48, 48, 48, 52, 51, 53, 48, 54, 56, 52, 57, 100, 55,
    99, 48, 52, 102, 57, 49, 51, 56, 100, 49, 97, 50, 48, 53, 48, 98, 98,
    102, 51, 97, 48, 99, 48, 53, 52, 52, 48, 50, 100, 100>>

CodeAnswers ==
  {[thrown |-> TRUE, error |-> RpcError], Returned(Undefined)}
  \cup {Returned(Some(c)) : c \in {CodeEIP3009, CodePermit, CodeProxy, CodeImplementation}}

SlotAnswers ==
  {[thrown |-> TRUE, error |-> RpcError], Returned(Some(ZeroWord)),
   Returned(Some(SlotWithImplementation))}

ImplementationAnswers ==
  {[thrown |-> TRUE, error |-> RpcError], Returned(Some(ZeroAddress)),
   Returned(Some(ImplementationAddress))}

NameAnswers == {[thrown |-> TRUE, error |-> RpcError], Returned("USD Coin")}

\* eip712Domain(): fields, name, version, chainId, verifyingContract, salt, extensions
DomainAnswers ==
  {[thrown |-> TRUE, error |-> RpcError],
   Returned(<<"0x0f", "USD Coin", "2", 56, "0xTOKEN", "0x00", << >> >>)}

VersionAnswers == {[thrown |-> TRUE, error |-> RpcError], Returned("2")}

ChainAnswers(chainId) == {[thrown |-> TRUE, error |-> RpcError], Returned(chainId)}

\* What the three probes and the proxy resolution can come to.
ImplOutcomes ==
  {getImplementationAddress(a, b, c) :
     a \in SlotAnswers, b \in SlotAnswers, c \in ImplementationAnswers}

EIP3009Outcomes ==
  {hasAnyMethod(EIP3009_SIGNATURES, code, impl, implCode) :
     code \in CodeAnswers, impl \in ImplOutcomes, implCode \in CodeAnswers}

PermitOutcomes ==
  {hasMethod(EIP2612_PERMIT, code, impl, implCode) :
     code \in CodeAnswers, impl \in ImplOutcomes, implCode \in CodeAnswers}

Permit2Outcomes == {checkPermit2Support(code) : code \in CodeAnswers}

\* What detectTokenPaymentMethods and getTokenInfo can come to on a chain.
CapabilityOutcomes(tokenAddress, chainId) ==
  {detectTokenPaymentMethods(tokenAddress, c, e, p, q) :
     c \in ChainAnswers(chainId), e \in EIP3009Outcomes, p \in PermitOutcomes,
     q \in Permit2Outcomes}

InfoOutcomes(tokenAddress) ==
  {getTokenInfo(tokenAddress, impl, n, dom, ver) :
     impl \in ImplOutcomes, n \in NameAnswers, dom \in DomainAnswers, ver \in VersionAnswers}

(***************************************************************************)
(* TokenDetector (cache.ts): the cache and the methods around it.          *)
(***************************************************************************)

\* Map.get, Map.set, Map.delete and Map.keys; a Map keeps its entries in the
\* order their keys were first set.
MapGet(map, key) ==
  IF \E i \in 1..Len(map) : map[i].key = key
  THEN Some(map[CHOOSE i \in 1..Len(map) : map[i].key = key].value)
  ELSE Undefined

MapSet(map, key, value) ==
  IF \E i \in 1..Len(map) : map[i].key = key
  THEN [i \in 1..Len(map) |-> IF map[i].key = key THEN [key |-> key, value |-> value] ELSE map[i]]
  ELSE Append(map, [key |-> key, value |-> value])

\* Map.delete that empties the map.
MapDelete_clears(map, key) == << >>

MapDelete(map, key) == SelectSeq(map, LAMBDA e : e.key # key)

MapKeys(map) == [i \in 1..Len(map) |-> map[i].key]

\* getCacheKey with the address as the caller wrote it.
getCacheKey_keeps_case(tokenAddress, chainId) == NatDigits(chainId) \o <<58>> \o tokenAddress

\* getCacheKey, after the node answered getChainId: `${chainId}:${tokenAddress.toLowerCase()}`
getCacheKey(tokenAddress, chainId) == NatDigits(chainId) \o <<58>> \o toLowerCase(tokenAddress)

\* Promise.all of the two detections: the pair's merge { ...capabilities, ...info },
\* or the rejection of the one that rejects first.  `failed` names the reads
\* of getChainId, name(), eip712Domain() and version() that failed.
DetectMiss(capabilities, info) ==
  LET rpc == {"getChainId"} \cup capabilities.rpc \cup info.rpc
      failed == info.failed \cup (IF capabilities.result.thrown THEN {"getChainId"} ELSE {})
  IN  IF ~capabilities.result.thrown /\ ~info.result.thrown
      THEN {[result |-> Returned([address |-> capabilities.result.value.address,
                                  supportedMethods |-> capabilities.result.value.supportedMethods,
                                  details |-> capabilities.result.value.details,
                                  name |-> info.result.value.name,
                                  version |-> info.result.value.version]),
             rpc |-> rpc, failed |-> failed]}
      ELSE {[result |-> r, rpc |-> rpc, failed |-> failed] :
              r \in {x \in {capabilities.result, info.result} : x.thrown}}

\* The priority with permit ahead of eip3009.
RecommendedOf_permit_first(supportedMethods) ==
  IF Has(supportedMethods, "permit") THEN Some("permit")
  ELSE IF Has(supportedMethods, "eip3009") THEN Some("eip3009")
  ELSE IF Has(supportedMethods, "permit2") \/ Has(supportedMethods, "permit2-witness")
  THEN Some("permit2")
  ELSE Undefined

\* The part of getRecommendedMethod after `await this.detect(...)`; null is undefined here.
RecommendedOf(supportedMethods) ==
  IF Has(supportedMethods, "eip3009") THEN Some("eip3009")
  ELSE IF Has(supportedMethods, "permit") THEN Some("permit")
  ELSE IF Has(supportedMethods, "permit2") \/ Has(supportedMethods, "permit2-witness")
  THEN Some("permit2")
  ELSE Undefined

getRecommendedMethod(detected) ==
  IF detected.thrown THEN detected
  ELSE Returned(RecommendedOf(detected.value.supportedMethods))

\* The part of initialize after Promise.all: a detection that failed was
\* caught and became null, and the nulls are filtered out.
initialize(detections) ==
  LET results == [i \in 1..Len(detections) |->
                    IF detections[i].thrown THEN Undefined ELSE Some(detections[i].value)]
      kept == SelectSeq(results, LAMBDA r : r # Undefined)
  IN  Returned([i \in 1..Len(kept) |-> kept[i][1]])

\* "0x8d0D000Ee44948FC98c9B98A4FA4921476f08B0d"
WLFIChecksummed ==
  <<48, 120, 56, 100, 48, 68, 48, 48, 48, 69, 101, 52, 52, 57, 52, 56, 70,
    67, 57, 56, 99, 57, 66, 57, 56, 65, 52, 70, 65, 52, 57, 50, 49, 52, 55,
    54, 102, 48, 56, 66, 48, 100>>
\* "0xA0b86991c6218b36c1d19D4a2e9Eb0cE3606eB48"
USDC ==
  <<48, 120, 65, 48, 98, 56, 54, 57, 57, 49, 99, 54, 50, 49, 56, 98, 51, 54,
    99, 49, 100, 49, 57, 68, 52, 97, 50, 101, 57, 69, 98, 48, 99, 69, 51, 54,
    48, 54, 101, 66, 52, 56>>

\* Bounds and inputs.
MaxCalls == 2

ChainIds == {1, 56, 137, 8453}

TokenAddresses == {WLFIChecksummed, USDC, toLowerCase(USDC)}

AddressLists == {<<WLFIChecksummed, USDC>>, <<USDC, toLowerCase(USDC)>>}

\* What a detection that missed the cache can come to, per token and chain.
DetectOutcomes ==
  [x \in TokenAddresses \X ChainIds |->
     UNION {DetectMiss(c, i) : c \in CapabilityOutcomes(x[1], x[2]), i \in InfoOutcomes(x[1])}]
  @@ << >>

\* One run of detect(): at the await of getCacheKey ("key"), at the await of
\* Promise.all ("detecting"), or settled ("done").  `prior` is the cache's
\* entry for the token on the node's chain when detect() was called; once
\* clearCache() is called, `prior` is dropped and `cleared` is set.
NewDetect(tokenAddress) ==
  [tokenAddress |-> tokenAddress, pc |-> "key", key |-> << >>, result |-> Undefined,
   rpc |-> {}, failed |-> {}, prior |-> MapGet(cache, getCacheKey(tokenAddress, chain)),
   cleared |-> FALSE]

AllDone(subs) == \A i \in 1..Len(subs) : subs[i].pc = "done"

\* What the method returns once the detections it awaits have settled.
Finish(op, subs) ==
  IF op = "detect" THEN subs[1].result[1]
  ELSE IF op = "getRecommendedMethod" THEN getRecommendedMethod(subs[1].result[1])
  ELSE initialize([i \in 1..Len(subs) |-> subs[i].result[1]])

\* The task after its detection i moved on to `sub`.
Advance(task, i, sub) ==
  LET subs == [task.subs EXCEPT ![i] = sub]
  IN  [task EXCEPT !.subs = subs,
                   !.out = IF AllDone(subs) THEN Some(Finish(task.op, subs)) ELSE Undefined]

\* A slot without a call.
Free(t) == tasks[t].op = "idle"

Start(t, op, arg, subs) ==
  /\ Free(t)
  /\ nCalls < MaxCalls
  /\ nCalls' = nCalls + 1
  /\ tasks' = [tasks EXCEPT ![t] =
                 [op |-> op, arg |-> arg, subs |-> subs,
                  out |-> IF subs = << >> THEN Some(Finish(op, subs)) ELSE Undefined]]
  /\ UNCHANGED <<cache, chain, stats, serverVars, builderVars, gateVars, clientVars, probeVars>>

detect_call(t, tokenAddress) == Start(t, "detect", <<tokenAddress>>, <<NewDetect(tokenAddress)>>)

getRecommendedMethod_call(t, tokenAddress) ==
  Start(t, "getRecommendedMethod", <<tokenAddress>>, <<NewDetect(tokenAddress)>>)

initialize_call(t, tokenAddresses) ==
  Start(t, "initialize", tokenAddresses,
        [i \in 1..Len(tokenAddresses) |-> NewDetect(tokenAddresses[i])])

\* detect(): the node answers getChainId; the cache is looked up.
detect_key(t, i, chainId) ==
  /\ tasks[t].subs[i].pc = "key"
  /\ LET sub == tasks[t].subs[i]
         cacheKey == getCacheKey(sub.tokenAddress, chainId.value)
     IN  tasks' = [tasks EXCEPT ![t] = Advance(tasks[t], i,
           IF chainId.thrown
           THEN [sub EXCEPT !.pc = "done", !.result = Some(chainId), !.rpc = {"getChainId"},
                            !.failed = {"getChainId"}]
           ELSE IF MapGet(cache, cacheKey) # Undefined
           THEN [sub EXCEPT !.pc = "done", !.key = cacheKey, !.rpc = {"getChainId"},
                            !.result = Some(Returned(MapGet(cache, cacheKey)[1]))]
           ELSE [sub EXCEPT !.pc = "detecting", !.key = cacheKey, !.rpc = {"getChainId"}])]
  /\ UNCHANGED <<cache, chain, stats, nCalls, serverVars, builderVars, gateVars, clientVars, warmVars, probeVars>>

\* detect(): both detections have settled; a result is stored and returned.
detect_done(t, i, detection) ==
  /\ tasks[t].subs[i].pc = "detecting"
  /\ LET sub == tasks[t].subs[i]
     IN  /\ tasks' = [tasks EXCEPT ![t] = Advance(tasks[t], i,
                        [sub EXCEPT !.pc = "done", !.result = Some(detection.result),
                                    !.rpc = sub.rpc \cup detection.rpc,
                                    !.failed = detection.failed])]
         /\ cache' = IF detection.result.thrown THEN cache
                     ELSE MapSet(cache, sub.key, detection.result.value)
  /\ UNCHANGED <<chain, stats, nCalls, serverVars, builderVars, gateVars, clientVars, warmVars>>

\* clearCache(): with an address, up to the await of getCacheKey; without one
\* (or with the empty string) the whole cache is cleared at once.
clearCache_call(t, tokenAddress) ==
  /\ Free(t)
  /\ nCalls < MaxCalls
  /\ nCalls' = nCalls + 1
  /\ LET out == IF tokenAddress # Undefined /\ tokenAddress[1] # << >>
                THEN Undefined ELSE Some(Returned("void"))
     IN  tasks' = [x \in Tasks |->
                    IF x = t
                    THEN [op |-> "clearCache", arg |-> tokenAddress, subs |-> << >>, out |-> out]
                    ELSE [tasks[x] EXCEPT !.subs = [i \in 1..Len(tasks[x].subs) |->
                            [tasks[x].subs[i] EXCEPT !.prior = Undefined, !.cleared = TRUE]]]]
  /\ cache' = IF tokenAddress # Undefined /\ tokenAddress[1] # << >> THEN cache ELSE << >>
  /\ UNCHANGED <<chain, stats, serverVars, builderVars, gateVars, clientVars, warmVars, probeVars>>

\* clearCache(address): the node answers getChainId; the entry is deleted.
clearCache_key(t, chainId) ==
  /\ tasks[t].op = "clearCache"
  /\ tasks[t].out = Undefined
  /\ IF chainId.thrown
     THEN /\ tasks' = [tasks EXCEPT ![t].out = Some(chainId)]
          /\ UNCHANGED cache
     ELSE /\ tasks' = [tasks EXCEPT ![t].out = Some(Returned("void"))]
          /\ cache' = MapDelete(cache, getCacheKey(tasks[t].arg[1], chainId.value))
  /\ UNCHANGED <<chain, stats, nCalls, serverVars, builderVars, gateVars, clientVars, warmVars, probeVars>>

getCacheStats ==
  /\ nCalls < MaxCalls
  /\ nCalls' = nCalls + 1
  /\ stats' = Some([size |-> Len(cache), keys |-> MapKeys(cache)])
  /\ UNCHANGED <<cache, chain, tasks, serverVars, builderVars, gateVars, clientVars, warmVars, probeVars>>

\* The caller takes the method's result.
task_return(t) ==
  /\ tasks[t].out # Undefined
  /\ tasks' = [tasks EXCEPT ![t] = IdleTask]
  /\ UNCHANGED <<cache, chain, stats, nCalls, serverVars, builderVars, gateVars, clientVars, probeVars>>

DetectorNext ==
  \/ \E a \in TokenAddresses : detect_call("detecting", a) /\ UNCHANGED warmVars
  \/ \E a \in {WLFIChecksummed, USDC} :
       getRecommendedMethod_call("detecting", a) /\ UNCHANGED warmVars
  \/ \E l \in AddressLists : initialize_call("detecting", l) /\ UNCHANGED warmVars
  \/ \E t \in Tasks : \E i \in 1..Len(tasks[t].subs), c \in ChainAnswers(chain) :
       detect_key(t, i, c)
  \/ \E t \in Tasks : \E i \in 1..Len(tasks[t].subs) :
       \E o \in DetectOutcomes[<<tasks[t].subs[i].tokenAddress, chain>>] :
         detect_done(t, i, o) /\ UNCHANGED probeVars
  \/ \E a \in {Undefined, Some(<< >>), Some(WLFIChecksummed), Some(toLowerCase(USDC))} :
       clearCache_call("clearing", a)
  \/ \E c \in ChainAnswers(chain) : clearCache_key("clearing", c)
  \/ getCacheStats
  \/ \E t \in Tasks : task_return(t) /\ UNCHANGED warmVars

DetectorInit == NoRequest /\ NewDetector(56) /\ NewServer(Undefined) /\ NoMiddleware

DetectorSpec == DetectorInit /\ [][DetectorNext]_vars

(***************************************************************************)
(* X402Server.createRequirements                                           *)
(***************************************************************************)

IsHexDigit(c) == IsDigit(c) \/ (c >= 97 /\ c <= 102) \/ (c >= 65 /\ c <= 70)

\* /^0x[a-fA-F0-9]{40}$/
EthAddressRegex(value) ==
  /\ Len(value) = 42
  /\ value[1] = 48
  /\ value[2] = 120
  /\ \A k \in 3..42 : IsHexDigit(value[k])

\* StrWhiteSpaceChar: white space and line terminators
IsStrWhiteSpace(c) ==
  \/ c \in {9, 10, 11, 12, 13, 32, 160, 5760, 8232, 8233, 8239, 8287, 12288, 65279}
  \/ (c >= 8192 /\ c <= 8202)

RECURSIVE TrimStart(_)
TrimStart(text) ==
  IF text # << >> /\ IsStrWhiteSpace(Head(text)) THEN TrimStart(Tail(text)) ELSE text

RECURSIVE TrimEnd(_)
TrimEnd(text) ==
  IF text # << >> /\ IsStrWhiteSpace(text[Len(text)])
  THEN TrimEnd(SubSeq(text, 1, Len(text) - 1))
  ELSE text

AllDigits(text) == \A k \in 1..Len(text) : IsDigit(text[k])

\* The first place of one of `chars` in the text, 0 when there is none.
IndexOf(text, chars) ==
  IF \E k \in 1..Len(text) : text[k] \in chars
  THEN CHOOSE k \in 1..Len(text) :
         text[k] \in chars /\ \A j \in 1..(k - 1) : text[j] \notin chars
  ELSE 0

RECURSIVE StripZeros(_)
StripZeros(digits) ==
  IF digits # << >> /\ Head(digits) = 48 THEN StripZeros(Tail(digits)) ELSE digits

RECURSIVE TrailingZeros(_)
TrailingZeros(digits) ==
  IF digits # << >> /\ digits[Len(digits)] = 48
  THEN 1 + TrailingZeros(SubSeq(digits, 1, Len(digits) - 1))
  ELSE 0

RECURSIVE NatOf(_)
NatOf(digits) ==
  IF digits = << >> THEN 0
  ELSE 10 * NatOf(SubSeq(digits, 1, Len(digits) - 1)) + (digits[Len(digits)] - 48)

\* 2^1024 - 2^970 in decimal: the least integer that rounds to Infinity as a
\* double.
DoubleLimit ==
  <<49, 55, 57, 55, 54, 57, 51, 49, 51, 52, 56, 54, 50, 51, 49, 53, 56, 48,
    55, 57, 51, 55, 50, 56, 57, 55, 49, 52, 48, 53, 51, 48, 51, 52, 49, 53,
    48, 55, 57, 57, 51, 52, 49, 51, 50, 55, 49, 48, 48, 51, 55, 56, 50, 54,
    57, 51, 54, 49, 55, 51, 55, 55, 56, 57, 56, 48, 52, 52, 52, 57, 54, 56,
    50, 57, 50, 55, 54, 52, 55, 53, 48, 57, 52, 54, 54, 52, 57, 48, 49, 55,
    57, 55, 55, 53, 56, 55, 50, 48, 55, 48, 57, 54, 51, 51, 48, 50, 56, 54,
    52, 49, 54, 54, 57, 50, 56, 56, 55, 57, 49, 48, 57, 52, 54, 53, 53, 53,
    53, 52, 55, 56, 53, 49, 57, 52, 48, 52, 48, 50, 54, 51, 48, 54, 53, 55,
    52, 56, 56, 54, 55, 49, 53, 48, 53, 56, 50, 48, 54, 56, 49, 57, 48, 56,
    57, 48, 50, 48, 48, 48, 55, 48, 56, 51, 56, 51, 54, 55, 54, 50, 55, 51,
    56, 53, 52, 56, 52, 53, 56, 49, 55, 55, 49, 49, 53, 51, 49, 55, 54, 52,
    52, 55, 53, 55, 51, 48, 50, 55, 48, 48, 54, 57, 56, 53, 53, 53, 55, 49,
    51, 54, 54, 57, 53, 57, 54, 50, 50, 56, 52, 50, 57, 49, 52, 56, 49, 57,
    56, 54, 48, 56, 51, 52, 57, 51, 54, 52, 55, 53, 50, 57, 50, 55, 49, 57,
    48, 55, 52, 49, 54, 56, 52, 52, 52, 51, 54, 53, 53, 49, 48, 55, 48, 52,
    51, 52, 50, 55, 49, 49, 53, 53, 57, 54, 57, 57, 53, 48, 56, 48, 57, 51,
    48, 52, 50, 56, 56, 48, 49, 55, 55, 57, 48, 52, 49, 55, 52, 52, 57, 55,
    55, 57, 50>>

\* a < b for two texts of decimal digits of one length
Less(a, b) == \E k \in 1..Len(a) : a[k] < b[k] /\ \A j \in 1..(k - 1) : a[j] = b[j]

Overflows(digits) ==
  \/ Len(StripZeros(digits)) > Len(DoubleLimit)
  \/ /\ Len(StripZeros(digits)) = Len(DoubleLimit)
     /\ ~Less(StripZeros(digits), DoubleLimit)

NaN == [kind |-> "NaN", negative |-> FALSE, integer |-> FALSE, zero |-> FALSE]

Finite(negative, integer, zero) ==
  [kind |-> "finite", negative |-> negative, integer |-> integer, zero |-> zero]

Infinite(negative) ==
  [kind |-> "Infinity", negative |-> negative, integer |-> FALSE, zero |-> FALSE]

\* StrUnsignedDecimalLiteral other than Infinity: digits, an optional
\* fraction, an optional exponent.  Whether the number is an integer is
\* decided on its exact value: the rounding to a double is modelled for the
\* overflow of integers only, which is exact for texts of at most 15
\* significant digits and for integers of any length.
DecimalLiteral(body, negative) ==
  LET e == IndexOf(body, {101, 69})
      mantissa == IF e = 0 THEN body ELSE SubSeq(body, 1, e - 1)
      exponentPart == IF e = 0 THEN << >> ELSE SubSeq(body, e + 1, Len(body))
      exponentDigits == IF exponentPart # << >> /\ exponentPart[1] \in {43, 45}
                        THEN Tail(exponentPart) ELSE exponentPart
      exponent == IF exponentPart # << >> /\ exponentPart[1] = 45
                  THEN 0 - NatOf(exponentDigits) ELSE NatOf(exponentDigits)
      dot == IndexOf(mantissa, {46})
      whole == IF dot = 0 THEN mantissa ELSE SubSeq(mantissa, 1, dot - 1)
      fraction == IF dot = 0 THEN << >> ELSE SubSeq(mantissa, dot + 1, Len(mantissa))
      digits == whole \o fraction
      shift == exponent - Len(fraction)
  IN  IF \/ ~AllDigits(whole)
         \/ ~AllDigits(fraction)
         \/ digits = << >>
         \/ e # 0 /\ (exponentDigits = << >> \/ ~AllDigits(exponentDigits))
      THEN NaN
      ELSE IF \A k \in 1..Len(digits) : digits[k] = 48 THEN Finite(negative, TRUE, TRUE)
      ELSE IF shift >= 0
      THEN IF Overflows(digits \o [i \in 1..shift |-> 48]) THEN Infinite(negative)
           ELSE Finite(negative, TRUE, FALSE)
      ELSE IF TrailingZeros(digits) >= 0 - shift
      THEN IF Overflows(SubSeq(digits, 1, Len(digits) + shift)) THEN Infinite(negative)
           ELSE Finite(negative, TRUE, FALSE)
      ELSE Finite(negative, FALSE, FALSE)

\* The digits of a literal after 0x, 0o or 0b.
RadixDigits(letter) ==
  IF letter \in {120, 88} THEN (48..57) \cup (97..102) \cup (65..70)
  ELSE IF letter \in {111, 79} THEN 48..55
  ELSE 48..49

\* Number(value) of a string: what kind of number it is (StringToNumber).  A
\* literal with a radix is taken to be finite (up to 255 digits).
Number(value) ==
  LET text == TrimEnd(TrimStart(value))
  IN  IF text = << >> THEN Finite(FALSE, TRUE, TRUE)
      ELSE IF Len(text) >= 2 /\ text[1] = 48 /\ text[2] \in {120, 88, 111, 79, 98, 66}
      THEN IF /\ Len(text) > 2
              /\ \A k \in 3..Len(text) : text[k] \in RadixDigits(text[2])
           THEN Finite(FALSE, TRUE, \A k \in 3..Len(text) : text[k] = 48)
           ELSE NaN
      ELSE LET body == IF text[1] \in {43, 45} THEN Tail(text) ELSE text
           IN  IF body = <<73, 110, 102, 105, 110, 105, 116, 121>>
               THEN Infinite(text[1] = 45)
               ELSE DecimalLiteral(body, text[1] = 45)

\* Number.isInteger(num) && num >= 0 (-0 >= 0 holds)
isIntegerString(value) ==
  /\ Number(value).kind = "finite"
  /\ Number(value).integer
  /\ ~Number(value).negative \/ Number(value).zero

\* z.string().url() on the resources that occur.
Urls == {"https://api.example.com/data"}

\* The first issue CreateRequirementsConfigSchema finds, if any.
CreateRequirementsConfigSchema(config) ==
  IF ~EthAddressRegex(config.asset) THEN Some("Invalid token address")
  ELSE IF ~isIntegerString(config.maxAmountRequired)
  THEN Some("Amount must be a non-negative integer string")
  ELSE IF \/ config.network # Undefined /\ config.network[1] \notin NetworkSchema
          \/ config.scheme # Undefined /\ config.scheme[1] # "exact"
          \/ /\ config.paymentType # Undefined
             /\ config.paymentType[1] \notin {"permit", "eip3009", "permit2", "auto"}
          \/ config.resource # Undefined /\ config.resource[1] \notin Urls \cup {""}
          \/ config.maxTimeoutSeconds # Undefined /\ config.maxTimeoutSeconds[1] <= 0
  THEN Some("Invalid input")
  ELSE Undefined

\* Names every chain by its id alone.
networkMap_chain(chainId) == "chain-" \o ToString(chainId)

\* getNetworkName: the name of a chain id.
networkMap(chainId) ==
  CASE chainId = 56 -> "bsc"
    [] chainId = 97 -> "bsc-testnet"
    [] chainId = 137 -> "polygon"
    [] chainId = 80001 -> "polygon-amoy"
    [] chainId = 8453 -> "base"
    [] chainId = 84531 -> "base-sepolia"
    [] OTHER -> "chain-" \o ToString(chainId)

primaryTypeMap(paymentType) ==
  CASE paymentType = "permit" -> "Permit"
    [] paymentType = "eip3009" -> "TransferWithAuthorization"
    [] paymentType = "permit2" -> "Permit2"

\* The messages of a failing supported() that hold the words "does not support".
DoesNotSupportMessages == {"Facilitator does not support this request"}

\* kinds.some(...): an entry of the network with the asset and the primary type.
isSupported(kinds, network, normalizedAssetAddress, expectedPrimaryType) ==
  \E k \in 1..Len(kinds) :
    /\ kinds[k].network = network
    /\ kinds[k].assets # Undefined
    /\ \E a \in 1..Len(kinds[k].assets[1]) :
         LET asset == kinds[k].assets[1][a]
         IN  /\ asset.address # << >>
             /\ toLowerCase(asset.address) = normalizedAssetAddress
             /\ Truthy(asset.primaryType)
             /\ asset.primaryType[1] = expectedPrimaryType

\* The text of an address, as the template literals of the messages print it.
Text(address) ==
  CASE address = WLFIChecksummed -> "0x8d0D000Ee44948FC98c9B98A4FA4921476f08B0d"
    [] address = WLFI -> "0x8d0d000ee44948fc98c9b98a4fa4921476f08b0d"
    [] address = USDC -> "0xA0b86991c6218b36c1d19D4a2e9Eb0cE3606eB48"
    [] address = toLowerCase(USDC) -> "0xa0b86991c6218b36c1d19d4a2e9eb0ce3606eb48"

RECURSIVE supportedCombinations(_)
supportedCombinations(kinds) ==
  IF kinds = << >> THEN << >>
  ELSE LET kind == Head(kinds)
           assets == IF kind.assets = Undefined THEN << >> ELSE kind.assets[1]
           named == SelectSeq(assets, LAMBDA x : Truthy(x.primaryType))
       IN  [i \in 1..Len(named) |->
              named[i].primaryType[1] \o " for " \o Text(named[i].address) \o " on "
                \o kind.network]
             \o supportedCombinations(Tail(kinds))

\* Array.prototype.join
RECURSIVE join(_, _)
join(texts, separator) ==
  IF texts = << >> THEN ""
  ELSE IF Len(texts) = 1 THEN texts[1]
  ELSE texts[1] \o separator \o join(Tail(texts), separator)

\* validateFacilitatorSupport, given what facilitator.supported() did.
validateFacilitatorSupport(network, paymentType, assetAddress, supportedResponse) ==
  IF supportedResponse.thrown
  THEN IF /\ supportedResponse.error.isError
          /\ supportedResponse.error.message \in DoesNotSupportMessages
       THEN supportedResponse
       ELSE Returned("void")
  ELSE IF \/ supportedResponse.value = Undefined
          \/ supportedResponse.value[1].kinds = Undefined
          \/ supportedResponse.value[1].kinds[1] = << >>
  THEN Returned("void")
  ELSE IF isSupported(supportedResponse.value[1].kinds[1], network,
                      toLowerCase(assetAddress), primaryTypeMap(paymentType))
  THEN Returned("void")
  ELSE Throw(TRUE,
         "Facilitator does not support '" \o paymentType \o "' ("
           \o primaryTypeMap(paymentType) \o ") for asset '" \o Text(assetAddress)
           \o "' on network '" \o network \o "'. Supported combinations: \n"
           \o (IF supportedCombinations(supportedResponse.value[1].kinds[1]) # << >>
               THEN join(supportedCombinations(supportedResponse.value[1].kinds[1]), ";\n")
               ELSE "none"))

\* "0x5D06b8145D908DDb7ca116664Fcf113ddaA4d6F3"
recipientAddress ==
  <<48, 120, 53, 68, 48, 54, 98, 56, 49, 52, 53, 68, 57, 48, 56, 68, 68, 98,
    55, 99, 97, 49, 49, 54, 54, 54, 52, 70, 99, 102, 49, 49, 51, 100, 100,
    97, 65, 52, 100, 54, 70, 51>>

\* a || b for an optional text a
OrElse(a, b) == IF Truthy(a) THEN a[1] ELSE b

\* Falls back to one hour, whatever the default given.
NumberOrElse_hour(a, b) == IF a # Undefined /\ a[1] # 0 THEN a[1] ELSE 3600

\* a || b for an optional number a
NumberOrElse(a, b) == IF a # Undefined /\ a[1] # 0 THEN a[1] ELSE b

\* Assembles the record on bsc, whatever the network resolved.
requirementsOf_bsc(config, network, paymentType, tokenName, tokenVersion) ==
  [scheme |-> OrElse(config.scheme, "exact"),
   network |-> "bsc",
   maxAmountRequired |-> config.maxAmountRequired,
   payTo |-> recipientAddress,
   asset |-> config.asset,
   maxTimeoutSeconds |-> NumberOrElse(config.maxTimeoutSeconds, 300),
   resource |-> OrElse(config.resource, ""),
   description |-> OrElse(config.description, ""),
   mimeType |-> OrElse(config.mimeType, "application/json"),
   paymentType |-> paymentType,
   outputSchema |-> config.outputSchema,
   extra |-> [name |-> IF Truthy(tokenName) THEN tokenName
                       ELSE IF config.extra = Undefined THEN Undefined
                       ELSE config.extra[1].name,
              version |-> IF Truthy(tokenVersion) THEN tokenVersion
                          ELSE IF config.extra = Undefined THEN Undefined
                          ELSE config.extra[1].version,
              relayer |-> IF config.extra = Undefined THEN Undefined
                          ELSE config.extra[1].relayer]]

\* The record createRequirements assembles.
requirementsOf(config, network, paymentType, tokenName, tokenVersion) ==
  [scheme |-> OrElse(config.scheme, "exact"),
   network |-> network,
   maxAmountRequired |-> config.maxAmountRequired,
   payTo |-> recipientAddress,
   asset |-> config.asset,
   maxTimeoutSeconds |-> NumberOrElse(config.maxTimeoutSeconds, 300),
   resource |-> OrElse(config.resource, ""),
   description |-> OrElse(config.description, ""),
   mimeType |-> OrElse(config.mimeType, "application/json"),
   paymentType |-> paymentType,
   outputSchema |-> config.outputSchema,
   extra |-> [name |-> IF Truthy(tokenName) THEN tokenName
                       ELSE IF config.extra = Undefined THEN Undefined
                       ELSE config.extra[1].name,
              version |-> IF Truthy(tokenVersion) THEN tokenVersion
                          ELSE IF config.extra = Undefined THEN Undefined
                          ELSE config.extra[1].version,
              relayer |-> IF config.extra = Undefined THEN Undefined
                          ELSE config.extra[1].relayer]]

\* PaymentRequirementsSchema.parse: the record, or the error of the schema.
PaymentRequirementsSchema(requirements) ==
  IF /\ requirements.scheme = "exact"
     /\ requirements.network \in NetworkSchema
     /\ requirements.maxAmountRequired # << >>
     /\ \A k \in 1..Len(requirements.maxAmountRequired) :
          IsDigit(requirements.maxAmountRequired[k])
     /\ EthAddressRegex(requirements.payTo)
     /\ EthAddressRegex(requirements.asset)
     /\ requirements.paymentType \in {"permit", "eip3009", "permit2"}
     /\ requirements.maxTimeoutSeconds > 0
  THEN Returned(requirements)
  ELSE ZodError("Invalid input")

MaxBuilds == 2

Config(asset, network, paymentType, autoDetect) ==
  [asset |-> asset, maxAmountRequired |-> <<49, 48, 48, 48>>, network |-> network,
   scheme |-> Undefined, outputSchema |-> Undefined, extra |-> Undefined,
   paymentType |-> paymentType, resource |-> Undefined, description |-> Undefined,
   mimeType |-> Undefined, maxTimeoutSeconds |-> Undefined, autoDetect |-> autoDetect]

\* Texts given as maxAmountRequired: "", "-1", "1.5", "1e3", "0x10", " 12 ",
\* 30 digits, and 1 followed by 309 zeros.
Amounts ==
  {<< >>, <<45, 49>>, <<49, 46, 53>>, <<49, 101, 51>>, <<48, 120, 49, 48>>,
   <<32, 49, 50, 32>>, [i \in 1..30 |-> 48 + (i % 10)],
   <<49>> \o [i \in 1..309 |-> 48]}

ApiExtra == Some([name |-> Some("API access"), version |-> Undefined,
                  relayer |-> Some("0xRELAYER")])

Configs ==
  {Config(WLFIChecksummed, Undefined, Undefined, Undefined),
   Config(WLFIChecksummed, Some("bsc"), Some("auto"), Undefined),
   Config(USDC, Some("base"), Undefined, Some(TRUE)),
   Config(USDC, Some("bsc"), Undefined, Some(FALSE)),
   Config(USDC, Undefined, Some("auto"), Some(FALSE)),
   Config(USDC, Some("bsc"), Some("permit"), Some(FALSE)),
   [Config(USDC, Undefined, Some("eip3009"), Some(FALSE)) EXCEPT !.extra = ApiExtra],
   [Config(USDC, Undefined, Some("permit2"), Undefined) EXCEPT
      !.scheme = Some("exact"), !.resource = Some("https://api.example.com/data"),
      !.description = Some("API access"), !.mimeType = Some("text/plain"),
      !.maxTimeoutSeconds = Some(60), !.extra = ApiExtra],
   Config(<<48, 120, 49, 50, 51>>, Some("bsc"), Undefined, Some(FALSE))}
  \cup {[Config(USDC, Some("bsc"), Some("permit"), Some(FALSE)) EXCEPT
           !.maxAmountRequired = a] : a \in Amounts}

Kind(network, assets) == [network |-> network, assets |-> assets]

\* Facilitator.supported(), given what fetch did: the body of a 2xx response,
\* and an empty list of kinds after any failure.
Facilitator_supported(fetched) ==
  IF fetched.kind = "rejected" \/ ~fetched.ok \/ fetched.json.thrown
  THEN Some([kinds |-> Some(<< >>)])
  ELSE fetched.json.value

\* Bodies of GET /supported: null, no kinds, kinds without assets, kinds with
\* assets.
SupportedBodies ==
  {Undefined,
   Some([kinds |-> Undefined]),
   Some([kinds |-> Some(<<Kind("bsc", Undefined)>>)]),
   Some([kinds |-> Some(
     <<Kind("bsc", Some(<<[address |-> WLFIChecksummed, primaryType |-> Some("Permit")],
                          [address |-> USDC, primaryType |-> Undefined]>>)),
       Kind("base", Some(<<[address |-> USDC,
                            primaryType |-> Some("TransferWithAuthorization")]>>))>>)])}

\* What facilitator.supported() may do: the client of facilitator.ts over some
\* fetch outcome, or (an object standing in for it) a rejection.
SupportedAnswers ==
  {Returned(Facilitator_supported(f)) : f \in Fetched(SupportedBodies)}
  \cup {Throw(TRUE, "fetch failed"), Throw(TRUE, "Facilitator does not support this request")}

\* A call of a detecting method made by createRequirements.
DetectTask(op, tokenAddress) ==
  [op |-> op, arg |-> <<tokenAddress>>, subs |-> <<NewDetect(tokenAddress)>>,
   out |-> Undefined]

\* createRequirements from the test of autoDetect to its next await.
\* Skips the detector when the config names a payment type.
Branch_skips(frame) ==
  IF Truthy(frame.config[1].paymentType) /\ frame.config[1].paymentType # Some("auto")
  THEN [frame EXCEPT !.pc = "supported", !.paymentType = frame.config[1].paymentType]
  ELSE [frame EXCEPT !.pc = "detect", !.detections = @ + 1]

Branch_detects(frame) == [frame EXCEPT !.pc = "detect", !.detections = @ + 1]

Branch(frame) ==
  LET config == frame.config[1]
  IN  IF config.autoDetect # Some(FALSE)
      THEN [frame EXCEPT !.pc = "detect", !.detections = @ + 1]
      ELSE IF ~Truthy(config.paymentType) \/ config.paymentType = Some("auto")
      THEN [frame EXCEPT !.pc = "done",
             !.out = Some(Throw(TRUE, "Must specify paymentType when autoDetect is false"))]
      ELSE [frame EXCEPT !.pc = "supported", !.paymentType = config.paymentType]

\* createRequirements goes on as `frame`; a detection it awaits is started.
Continue(frame) ==
  /\ building' = frame
  /\ tasks' = [tasks EXCEPT !["detecting"] =
                 IF frame.pc = "detect" THEN DetectTask("detect", frame.config[1].asset)
                 ELSE IF frame.pc = "recommend"
                 THEN DetectTask("getRecommendedMethod", frame.config[1].asset)
                 ELSE IdleTask]

Failed(frame, completion) == [frame EXCEPT !.pc = "done", !.out = Some(completion)]

\* createRequirements(config), up to its first await.
createRequirements_call(config) ==
  /\ building.pc \in {"idle", "done"}
  /\ Free("detecting")
  /\ nBuilds < MaxBuilds
  /\ nBuilds' = nBuilds + 1
  /\ LET frame == [IdleBuild EXCEPT !.config = Some(config)]
         network == IF Truthy(config.network) THEN config.network ELSE thisNetwork
     IN  Continue(IF CreateRequirementsConfigSchema(config) # Undefined
                  THEN Failed(frame, ZodError(CreateRequirementsConfigSchema(config)[1]))
                  ELSE IF Truthy(network) THEN Branch([frame EXCEPT !.network = network])
                  ELSE [frame EXCEPT !.pc = "network", !.lookups = 1])
  /\ UNCHANGED <<cache, chain, stats, nCalls, thisNetwork, serverVars>>

\* getNetworkName: the node answers getChainId.
createRequirements_network(chainId) ==
  /\ building.pc = "network"
  /\ IF chainId.thrown
     THEN /\ Continue(Failed(building, chainId))
          /\ UNCHANGED thisNetwork
     ELSE /\ thisNetwork' = Some(networkMap(chainId.value))
          /\ Continue(Branch([building EXCEPT !.network = Some(networkMap(chainId.value))]))
  /\ UNCHANGED <<cache, chain, stats, nCalls, nBuilds, serverVars, gateVars, clientVars, warmVars, probeVars>>

\* detector.detect(asset) has settled.
createRequirements_detected ==
  /\ building.pc = "detect"
  /\ tasks["detecting"].out # Undefined
  /\ LET result == tasks["detecting"].out[1]
         config == building.config[1]
     IN  Continue(IF result.thrown THEN Failed(building, result)
                  ELSE IF Truthy(config.paymentType) /\ config.paymentType # Some("auto")
                  THEN [building EXCEPT !.pc = "supported", !.result = Some(result.value),
                                        !.paymentType = config.paymentType]
                  ELSE [building EXCEPT !.pc = "recommend", !.result = Some(result.value),
                                        !.detections = @ + 1])
  /\ UNCHANGED <<cache, chain, stats, nCalls, thisNetwork, nBuilds, serverVars, gateVars, clientVars, warmVars, probeVars>>

\* detector.getRecommendedMethod(asset) has settled.
createRequirements_recommended ==
  /\ building.pc = "recommend"
  /\ tasks["detecting"].out # Undefined
  /\ LET recommendedMethod == tasks["detecting"].out[1]
     IN  Continue(IF recommendedMethod.thrown THEN Failed(building, recommendedMethod)
                  ELSE IF ~Truthy(recommendedMethod.value)
                  THEN Failed(building, Throw(TRUE,
                         "Token " \o Text(building.config[1].asset)
                           \o " does not support advanced payment methods"))
                  ELSE [building EXCEPT !.pc = "supported",
                                        !.paymentType = recommendedMethod.value])
  /\ UNCHANGED <<cache, chain, stats, nCalls, thisNetwork, nBuilds, serverVars, gateVars, clientVars, warmVars, probeVars>>

\* facilitator.supported() has settled: the support is checked, the record
\* assembled and validated.
createRequirements_supported(supportedResponse) ==
  /\ building.pc = "supported"
  /\ LET config == building.config[1]
         frame == [building EXCEPT !.supported = @ + 1,
                                   !.supportedResponse = Some(supportedResponse)]
         valid == validateFacilitatorSupport(building.network[1], building.paymentType[1],
                                             config.asset, supportedResponse)
         tokenName == IF building.result = Undefined THEN Undefined
                      ELSE Some(building.result[1].name)
         tokenVersion == IF building.result = Undefined THEN Undefined
                         ELSE Some(building.result[1].version)
     IN  Continue(Failed(frame,
           IF valid.thrown THEN valid
           ELSE PaymentRequirementsSchema(
                  requirementsOf(config, building.network[1], building.paymentType[1],
                                 tokenName, tokenVersion))))
  /\ UNCHANGED <<cache, chain, stats, nCalls, thisNetwork, nBuilds, serverVars, gateVars, clientVars, warmVars, probeVars>>

BuilderNext ==
  \/ \E config \in Configs : createRequirements_call(config) /\ UNCHANGED <<gateVars, clientVars, warmVars, probeVars>>
  \/ \E c \in ChainAnswers(chain) : createRequirements_network(c)
  \/ \E i \in 1..Len(tasks["detecting"].subs), c \in ChainAnswers(chain) :
       detect_key("detecting", i, c)
  \/ \E i \in 1..Len(tasks["detecting"].subs) :
       \E o \in DetectOutcomes[<<tasks["detecting"].subs[i].tokenAddress, chain>>] :
         detect_done("detecting", i, o) /\ UNCHANGED probeVars
  \/ createRequirements_detected
  \/ createRequirements_recommended
  \/ \E s \in SupportedAnswers : createRequirements_supported(s)

\* The servers at the start: the chain of the node and the network the server
\* was constructed with.
Servers ==
  {[chain |-> c, network |-> Undefined] : c \in ChainIds}
  \cup {[chain |-> 56, network |-> Some("bsc")],
        [chain |-> 8453, network |-> Some("bsc")],
        [chain |-> 56, network |-> Some("ethereum")]}

BuilderInit ==
  /\ NoRequest
  /\ NoMiddleware
  /\ \E server \in Servers : NewDetector(server.chain) /\ NewServer(server.network)

BuilderSpec == BuilderInit /\ [][BuilderNext]_vars

(***************************************************************************)
(* The gate middleware (middlewares/express.ts, middlewares/hono.ts)       *)
(***************************************************************************)

\* { asset: token, maxAmountRequired: amount, ...filteredConfig }: the extra
\* config with the resource (the URL of the request when the extra config
\* names none), its undefined values dropped, spread over token and amount.
filteredConfig(token, amount, extraConfig, url) ==
  [extraConfig EXCEPT
     !.asset = IF @ = Undefined THEN token ELSE @[1],
     !.maxAmountRequired = IF @ = Undefined THEN amount ELSE @[1],
     !.resource = IF ~Truthy(@) /\ Truthy(url) THEN url ELSE @]

\* Takes no error for a validation error.
isZodError_never(error) == FALSE

\* "issues" in error: the errors the schemas throw.
isZodError(error) == "issues" \in DOMAIN error

\* res.status(status).json(body), c.json(body, status)
Json(g, status, body) ==
  [g EXCEPT !.pc = "done", !.response = Some([status |-> status, body |-> body])]

\* The catch block of the middleware.
Catch(g, error) ==
  LET caught == [g EXCEPT !.caught = Some(error)]
  IN  IF options.onError
      THEN [caught EXCEPT !.pc = "done", !.log = Append(@, "onError")]
      ELSE IF isZodError(error)
      THEN Json(caught, 400, [error |-> "Invalid payment configuration",
                              message |-> ErrorMessageOf(error, "Validation failed"),
                              details |-> error.issues])
      ELSE Json(caught, 500, [error |-> "Payment processing error",
                              message |-> ErrorMessageOf(error, "Unknown error")])

\* if (!result.success): the custom 402 handler, or the status and body of
\* the result.
Denied(g, result) ==
  IF options.on402 /\ result.status = 402
  THEN [g EXCEPT !.pc = "done", !.log = Append(@, "on402")]
  ELSE Json(g, result.status, result.response)

\* next()
Forward(g) == [g EXCEPT !.pc = "done", !.log = Append(@, "next")]

\* Calls onPaymentSuccess before the payment is attached to the request.
Admitted_callback_first(g, result) ==
  IF options.onPaymentSuccess
  THEN [g EXCEPT !.pc = "callback",
                 !.log = @ \o <<"onPaymentSuccess", "x402">>,
                 !.called = Append(@, result.data),
                 !.x402 = Some(result.data)]
  ELSE Forward([g EXCEPT !.x402 = Some(result.data), !.log = Append(@, "x402")])

\* Payment succeeded: req.x402 (c.set("x402", ...)) is set, then
\* onPaymentSuccess is called and awaited, or next() is called at once.
Admitted(g, result) ==
  LET attached == [g EXCEPT !.x402 = Some([payer |-> result.data.payer,
                                           txHash |-> result.data.txHash]),
                            !.log = Append(@, "x402")]
  IN  IF options.onPaymentSuccess
      THEN [attached EXCEPT !.pc = "callback",
                            !.log = Append(@, "onPaymentSuccess"),
                            !.called = Append(@, [payer |-> result.data.payer,
                                                  txHash |-> result.data.txHash])]
      ELSE Forward(attached)

\* How many runs of the middleware one behaviour makes.
MaxGated == 2

\* The middleware is invoked: getToken, getAmount and getConfig answer, and
\* createRequirements is called.
gate_call(header, token, amount, extraConfig, url) ==
  /\ gate.pc \in {"idle", "done"}
  /\ nGated < MaxGated
  /\ nGated' = nGated + 1
  /\ gate' = [IdleGate EXCEPT !.pc = "requirements", !.header = header]
  /\ createRequirements_call(filteredConfig(token, amount, extraConfig, url))
  /\ UNCHANGED <<clientVars, warmVars, probeVars, options>>

\* The middleware is invoked and getToken, getAmount or getConfig throws.
gate_thrown(header, error) ==
  /\ gate.pc \in {"idle", "done"}
  /\ nGated < MaxGated
  /\ nGated' = nGated + 1
  /\ gate' = Catch([IdleGate EXCEPT !.header = header], error)
  /\ UNCHANGED <<clientVars, warmVars, probeVars, options, serverVars, detectorVars, builderVars>>

\* createRequirements has thrown.
gate_rejected ==
  /\ gate.pc = "requirements"
  /\ building.pc = "done"
  /\ building.out[1].thrown
  /\ gate' = Catch(gate, building.out[1].error)
  /\ UNCHANGED <<clientVars, warmVars, probeVars, options, nGated, serverVars, detectorVars, builderVars>>

\* createRequirements has returned: process(paymentHeader, requirements).
gate_process ==
  /\ gate.pc = "requirements"
  /\ building.pc = "done"
  /\ ~building.out[1].thrown
  /\ gate' = [gate EXCEPT !.pc = "process"]
  /\ process_parse(gate.header, building.out[1].value)
  /\ UNCHANGED <<clientVars, warmVars, probeVars, options, nGated>>

\* process() has settled: the middleware answers, or admits the request up
\* to the await of onPaymentSuccess.
gate_result ==
  /\ gate.pc = "process"
  /\ pc = "done"
  /\ gate' = IF outcome[1].thrown THEN Catch(gate, outcome[1].error)
             ELSE IF ~outcome[1].value.success
             THEN Denied([gate EXCEPT !.result = Some(outcome[1].value)], outcome[1].value)
             ELSE Admitted([gate EXCEPT !.result = Some(outcome[1].value)],
                           outcome[1].value)
  /\ process_return
  /\ UNCHANGED <<clientVars, warmVars, probeVars, options, nGated>>

\* onPaymentSuccess has settled.
gate_callback(completion) ==
  /\ gate.pc = "callback"
  /\ gate' = IF completion.thrown THEN Catch(gate, completion.error) ELSE Forward(gate)
  /\ UNCHANGED <<clientVars, warmVars, probeVars, options, nGated, serverVars, detectorVars, builderVars>>

\* What getConfig answers: the fast mode on bsc, with and without a resource.
ExtraConfigs ==
  {[Config(Undefined, Some("bsc"), Some("permit"), Some(FALSE)) EXCEPT
      !.maxAmountRequired = Undefined],
   [Config(Undefined, Some("bsc"), Some("eip3009"), Some(FALSE)) EXCEPT
      !.maxAmountRequired = Undefined, !.resource = Some("https://api.example.com/data")]}

\* The x-payment header of the request: none, no Base64, or a payment.
GateHeaders ==
  {Undefined, Some(Txt("invalid-base64")), Some(HeaderOf(PayloadJson("exact", "bsc", "permit")))}

GateVerifyBodies ==
  {[success |-> Some(TRUE), payer |-> Some("0xPAYER1"), error |-> Undefined,
    errorMessage |-> Undefined],
   [success |-> Some(FALSE), payer |-> Undefined, error |-> Some("invalid_signature"),
    errorMessage |-> Undefined]}

GateSettleBodies ==
  {[success |-> Some(TRUE), transaction |-> Some("0xTX1"), network |-> Some("bsc"),
    error |-> Undefined, errorMessage |-> Undefined],
   [success |-> Some(FALSE), transaction |-> Undefined, network |-> Undefined,
    error |-> Some("insufficient_gas"), errorMessage |-> Undefined]}

GateBehaviours(bodies) ==
  {[via |-> "client", fetched |-> FetchOk(Returned(b))] : b \in bodies}
  \cup {[via |-> "rejects", error |-> [isError |-> TRUE, message |-> "fetch failed"]]}

\* What the facilitator answers to supported(): nothing listed, or only
\* another token on bsc.
GateSupported ==
  {Returned(Some([kinds |-> Some(<< >>)])),
   Returned(Some([kinds |-> Some(
     <<Kind("bsc", Some(<<[address |-> WLFIChecksummed, primaryType |-> Some("Permit")]>>))>>)]))}

\* What getToken, getAmount and getConfig throw: an Error, a text, and an
\* object with issues that is no Error.
GateErrors ==
  {[isError |-> TRUE, message |-> "no token"],
   [isError |-> FALSE, message |-> "aborted"],
   [isError |-> FALSE, message |-> "bad request", issues |-> <<"bad request">>]}

MiddlewareNext ==
  \/ \E header \in GateHeaders, token \in {USDC, <<48, 120, 49, 50, 51>>},
        extraConfig \in ExtraConfigs :
       gate_call(header, token, <<49, 48, 48, 48>>, extraConfig,
                 Some("https://api.example.com/data"))
  \/ \E header \in GateHeaders, error \in GateErrors : gate_thrown(header, error)
  \/ \E s \in GateSupported : createRequirements_supported(s)
  \/ gate_rejected
  \/ gate_process
  \/ \E b \in GateBehaviours(GateVerifyBodies) : process_verify(b)
  \/ \E b \in GateBehaviours(GateSettleBodies) : process_settle(b)
  \/ gate_result
  \/ \E completion \in {Returned(Undefined), Throw(TRUE, "database is down")} :
       gate_callback(completion)

\* createExpressMiddleware(options), createHonoMiddleware(options) over a new
\* server on bsc.
MiddlewareInit ==
  /\ NoRequest
  /\ NewDetector(56)
  /\ NewServer(Some("bsc"))
  /\ gate = IdleGate
  /\ nGated = 0
  /\ options \in [framework : {"express", "hono"}, on402 : BOOLEAN,
                   onPaymentSuccess : BOOLEAN, onError : BOOLEAN]

MiddlewareSpec == MiddlewareInit /\ [][MiddlewareNext]_vars

(***************************************************************************)
(* The facilitator client on its own (x402x-facilitator/src/facilitator.ts) *)
(***************************************************************************)

\* verify(), settle() or supported() is called and awaits fetch.
Facilitator_call(op) ==
  /\ client.pc \in {"idle", "done"}
  /\ client' = [IdleCall EXCEPT !.pc = "fetch", !.op = op]
  /\ UNCHANGED <<serverVars, detectorVars, builderVars, gateVars, warmVars, probeVars>>

\* fetch has settled and the method returns.
Facilitator_return(fetched) ==
  /\ client.pc = "fetch"
  /\ client' = [client EXCEPT
       !.pc = "done",
       !.fetched = Some(fetched),
       !.out = Some(Returned(CASE client.op = "verify" -> Facilitator_verify(fetched)
                               [] client.op = "settle" -> Facilitator_settle(fetched)
                               [] client.op = "supported" -> Facilitator_supported(fetched)))]
  /\ UNCHANGED <<serverVars, detectorVars, builderVars, gateVars, warmVars, probeVars>>

\* The bodies the facilitator may answer with, per endpoint.
BodiesOf ==
  [op \in {"verify", "settle", "supported"} |->
     CASE op = "verify" -> VerifyBodies
       [] op = "settle" -> SettleBodies
       [] op = "supported" -> SupportedBodies]

FacilitatorNext ==
  \/ \E op \in DOMAIN BodiesOf : Facilitator_call(op)
  \/ \E op \in {client.op} \cap DOMAIN BodiesOf :
       \E fetched \in Fetched(BodiesOf[op]) : Facilitator_return(fetched)

FacilitatorSpec == Init /\ [][FacilitatorNext]_vars

(***************************************************************************)
(* Claims about the detector, under DetectorSpec.                          *)
(***************************************************************************)

\* The runs of detect() in flight or settled and not yet handed back.
Detections == {<<t, i>> : t \in Tasks, i \in 1..2} 

Detection(d) == tasks[d[1]].subs[d[2]]

Settled(d) == d[2] <= Len(tasks[d[1]].subs) /\ Detection(d).pc = "done"

Succeeded(d) == Settled(d) /\ ~Detection(d).result[1].thrown

\* C12: a detect(a) called after an earlier detect(a) of the same chain has
\* succeeded, with no clearCache since, returns the result of the earlier call
\* and issues no RPC call of any kind, getChainId included.
C12_CacheHitWithoutRpc ==
  \A d \in Detections :
    Settled(d) /\ Detection(d).prior # Undefined =>
      /\ Detection(d).result[1] = Returned(Detection(d).prior[1])
      /\ Detection(d).rpc = {}

\* The set of the methods of a list.
MethodSet(supportedMethods) == {supportedMethods[i] : i \in 1..Len(supportedMethods)}

\* C14: getRecommendedMethod returns eip3009 if the detected set holds it, else
\* permit if the set holds it, else permit2 if the set holds permit2 or
\* permit2-witness, else null; never permit2-witness, never a method outside
\* the detected set.
C14_RecommendedPriority ==
  \A t \in Tasks :
    tasks[t].op = "getRecommendedMethod" /\ tasks[t].out # Undefined /\ Succeeded(<<t, 1>>) =>
      LET m == MethodSet(Detection(<<t, 1>>).result[1].value.supportedMethods)
          r == tasks[t].out[1]
      IN  /\ ~r.thrown
          /\ "eip3009" \in m => r.value = Some("eip3009")
          /\ "eip3009" \notin m /\ "permit" \in m => r.value = Some("permit")
          /\ m \cap {"eip3009", "permit"} = {} /\ m \cap {"permit2", "permit2-witness"} # {}
               => r.value = Some("permit2")
          /\ m \cap {"eip3009", "permit", "permit2", "permit2-witness"} = {} => r.value = Undefined
          /\ r.value # Some("permit2-witness")
          /\ r.value # Undefined => r.value[1] \in m

C14_Witness ==
  /\ tasks["detecting"].op = "getRecommendedMethod"
  /\ tasks["detecting"].out = Some(Returned(Some("permit2")))
  /\ Detection(<<"detecting", 1>>).result[1].value.supportedMethods = <<"permit2", "permit2-witness">>

\* C15: detect(a) fails exactly when name() could not be read, whatever other
\* read failed; with eip712Domain() and version() both failing the version
\* is "1".
C15_FailsOnlyOnName ==
  \A d \in Detections :
    Settled(d) =>
      /\ Detection(d).result[1].thrown <=> "name" \in Detection(d).failed
      /\ ~Detection(d).result[1].thrown /\ {"eip712Domain", "version"} \subseteq Detection(d).failed
           => Detection(d).result[1].value.version = "1"

\* The cache key a token address has on the node's chain.
KeyOf(tokenAddress) == NatDigits(chain) \o <<58>> \o toLowerCase(tokenAddress)

\* C16: initialize(addresses) always resolves, with exactly the results of the
\* detections that succeeded, in order; afterwards the cache holds an entry
\* for every address detected successfully and none for an address whose
\* detection failed.
C16_InitializeKeepsSuccesses ==
  \A t \in Tasks :
    tasks[t].op = "initialize" /\ tasks[t].out # Undefined =>
      LET subs == tasks[t].subs
          good == SelectSeq(subs, LAMBDA x : ~x.result[1].thrown)
      IN  /\ ~tasks[t].out[1].thrown
          /\ tasks[t].out[1].value = [i \in 1..Len(good) |-> good[i].result[1].value]
          /\ \A i \in 1..Len(subs) :
               ~subs[i].cleared =>
                 /\ ~subs[i].result[1].thrown => MapGet(cache, KeyOf(subs[i].tokenAddress)) # Undefined
                 /\ (\A j \in 1..Len(subs) :
                       KeyOf(subs[j].tokenAddress) = KeyOf(subs[i].tokenAddress)
                         => subs[j].result[1].thrown)
                      => MapGet(cache, KeyOf(subs[i].tokenAddress)) = Undefined

Keys(map) == {map[i].key : i \in 1..Len(map)}

\* Every key is "<chainId>:<address in lower case>", and no two keys differ
\* in letter case only.
C17_KeyForm ==
  \A i \in 1..Len(cache) :
    /\ \E a \in TokenAddresses :
         /\ SubSeq(cache[i].key, 1, 3) = <<53, 54, 58>>
         /\ toLowerCase(Drop(cache[i].key, 3)) = toLowerCase(a)
    /\ \A k \in 1..Len(cache[i].key) : cache[i].key[k] \notin 65..90
    /\ \A j \in 1..Len(cache) : toLowerCase(cache[j].key) = toLowerCase(cache[i].key) => j = i

\* A key appears only in a step in which a detect() settles successfully with
\* that key; a key disappears only in a step of clearCache.
C17_Step ==
  /\ \A k \in Keys(cache') \ Keys(cache) :
       \E d \in Detections :
         /\ d[2] <= Len(tasks[d[1]].subs)
         /\ tasks[d[1]].subs[d[2]].pc = "detecting"
         /\ tasks'[d[1]].subs[d[2]].pc = "done"
         /\ ~tasks'[d[1]].subs[d[2]].result[1].thrown
         /\ tasks'[d[1]].subs[d[2]].key = k
  /\ Keys(cache) \ Keys(cache') # {} =>
       \E t \in Tasks :
         /\ tasks'[t].op = "clearCache"
         /\ tasks[t].op = "idle" \/ (tasks[t].out = Undefined /\ tasks'[t].out # Undefined)

\* C17: under any sequence of detect, getRecommendedMethod, initialize,
\* clearCache and getCacheStats calls every cache key has the form
\* "<chainId>:<lowercased address>", an entry is added only by a detect that
\* completed successfully and removed only by clearCache.
C17_CacheLifetime == [](C17_KeyForm) /\ [][C17_Step]_vars

C17_Witness ==
  /\ tasks["detecting"].op = "initialize"
  /\ tasks["detecting"].arg = <<USDC, toLowerCase(USDC)>>
  /\ tasks["detecting"].out # Undefined
  /\ Len(tasks["detecting"].out[1].value) = 2
  /\ Len(cache) = 1
  /\ cache[1].key = <<53, 54, 58>> \o toLowerCase(USDC)

\* C18: clearCache(a) removes at most the entry of token a on the current
\* chain and leaves every other entry as it is; clearCache() removes every
\* entry; getCacheStats() reports the keys of the cache and their number (0
\* and no key for an empty cache) and leaves the cache as it is.
C18_Step ==
  /\ \A t \in Tasks :
       tasks[t].op = "clearCache" /\ tasks[t].out = Undefined /\ tasks'[t].out # Undefined =>
         \/ cache' = cache
         \/ cache' = SelectSeq(cache, LAMBDA e :
                       e.key # <<53, 54, 58>> \o toLowerCase(tasks[t].arg[1]))
  /\ \A t \in Tasks :
       tasks[t].op = "idle" /\ tasks'[t].op = "clearCache" /\ tasks'[t].arg = Undefined =>
         cache' = << >>
  /\ nCalls' = nCalls + 1 /\ tasks' = tasks =>
       /\ cache' = cache
       /\ stats'[1].size = Len(stats'[1].keys)
       /\ stats'[1].keys = [i \in 1..Len(cache) |-> cache[i].key]
       /\ cache = << >> => stats'[1] = [size |-> 0, keys |-> << >>]

Cold(sub) ==
  /\ sub.pc = "done"
  /\ sub.prior = Undefined
  /\ ~sub.cleared
  /\ sub.result[1].thrown \/ sub.rpc # {"getChainId"}

\* C19: two detect(a) running side by side on a cold cache both complete with
\* a result, the cache ends with exactly one entry for a's key, and that
\* entry equals the value each of the two callers got.
C19_ConcurrentDetectIdempotent ==
  \A t \in Tasks :
    LET subs == tasks[t].subs
    IN  /\ Len(subs) = 2
        /\ toLowerCase(subs[1].tokenAddress) = toLowerCase(subs[2].tokenAddress)
        /\ Cold(subs[1])
        /\ Cold(subs[2])
        => /\ ~subs[1].result[1].thrown
           /\ ~subs[2].result[1].thrown
           /\ Len(SelectSeq(cache, LAMBDA e : e.key = KeyOf(subs[1].tokenAddress))) = 1
           /\ MapGet(cache, KeyOf(subs[1].tokenAddress)) = Some(subs[1].result[1].value)
           /\ MapGet(cache, KeyOf(subs[1].tokenAddress)) = Some(subs[2].result[1].value)

\* The createRequirements() call asks for the detector to pick the payment
\* type of WLFI.
AutoDetectsWLFI ==
  /\ building.config # Undefined
  /\ toLowerCase(building.config[1].asset) = WLFI
  /\ building.config[1].autoDetect # Some(FALSE)
  /\ building.config[1].paymentType \in {Undefined, Some("auto")}

\* C13: a detection of the preset token WLFI issues no getCode; on chain 56,
\* which is in the preset's supportedNetworks, it returns exactly the preset's
\* supportedMethods, so that createRequirements for WLFI never finds the token
\* without a payment method and returns the payment type 'permit'; on a chain
\* outside supportedNetworks it returns no method and all flags false.
C13_PresetToken ==
  /\ \A d \in Detections :
       Succeeded(d) /\ toLowerCase(Detection(d).tokenAddress) = WLFI =>
         LET result == Detection(d).result[1].value
         IN  /\ "getCode" \notin Detection(d).rpc
             /\ chain = 56 => result.supportedMethods = <<"permit">>
             /\ chain # 56 =>
                  /\ result.supportedMethods = << >>
                  /\ result.details = [hasEIP3009 |-> FALSE, hasPermit |-> FALSE,
                                       hasPermit2Approval |-> FALSE]
  /\ AutoDetectsWLFI /\ chain = 56 /\ building.pc = "done" =>
       IF building.out[1].thrown
       THEN building.out[1].error.message #
              "Token " \o Text(building.config[1].asset)
                \o " does not support advanced payment methods"
       ELSE building.out[1].value.paymentType = "permit"

C13_Witness ==
  /\ AutoDetectsWLFI
  /\ chain = 56
  /\ building.pc = "done"
  /\ building.detections = 2
  /\ ~building.out[1].thrown
  /\ building.out[1].value.paymentType = "permit"
  /\ building.out[1].value.network = "bsc"
  /\ Len(cache) = 1
  /\ cache[1].value.supportedMethods = <<"permit">>

\* The createRequirements() call has autoDetect = false and no payment type
\* other than 'auto'.
NoPaymentType ==
  /\ building.config # Undefined
  /\ building.config[1].autoDetect = Some(FALSE)
  /\ building.config[1].paymentType \in {Undefined, Some("auto")}

MustSpecify == Throw(TRUE, "Must specify paymentType when autoDetect is false")

\* C20 as stated: createRequirements with autoDetect = false and paymentType
\* absent or 'auto' fails with 'Must specify paymentType when autoDetect is
\* false', before supported() is called and without a run of the detector.
C20_MustSpecifyPaymentType ==
  NoPaymentType =>
    /\ building.supported = 0
    /\ building.detections = 0
    /\ tasks["detecting"] = IdleTask
    /\ building.pc = "done" => building.out = Some(MustSpecify)

\* C20, amended: such a call fails before supported() is called and without a
\* run of the detector; the failure is 'Must specify paymentType when
\* autoDetect is false' when the config passes validation and the network is
\* known (from the config, the server, or a chain-id lookup that succeeded);
\* otherwise it is the validation error or the failure of the lookup.
C20_MustSpecifyOnceNetworkKnown ==
  NoPaymentType =>
    /\ building.supported = 0
    /\ building.detections = 0
    /\ tasks["detecting"] = IdleTask
    /\ building.pc \in {"network", "done"}
    /\ building.pc = "done" =>
         /\ building.out[1].thrown
         /\ building.network # Undefined => building.out = Some(MustSpecify)
         /\ building.network = Undefined =>
              \/ /\ CreateRequirementsConfigSchema(building.config[1]) # Undefined
                 /\ building.lookups = 0
                 /\ building.out[1].error.message =
                      CreateRequirementsConfigSchema(building.config[1])[1]
              \/ /\ CreateRequirementsConfigSchema(building.config[1]) = Undefined
                 /\ building.lookups = 1
                 /\ building.out[1].error = RpcError

C20_Witness ==
  /\ NoPaymentType
  /\ building.config[1].paymentType = Some("auto")
  /\ building.pc = "done"
  /\ building.lookups = 1
  /\ building.network = Some("base")
  /\ building.out = Some(MustSpecify)

\* The createRequirements() call has autoDetect = false and names a payment
\* type.
ManualPaymentType ==
  /\ building.config # Undefined
  /\ building.config[1].autoDetect = Some(FALSE)
  /\ building.config[1].paymentType \notin {Undefined, Some("auto")}

Emitted == building.pc = "done" /\ ~building.out[1].thrown

NoExtra == [name |-> Undefined, version |-> Undefined, relayer |-> Undefined]

C21_NoDetection ==
  ManualPaymentType =>
    /\ building.detections = 0
    /\ tasks["detecting"] = IdleTask
    /\ Emitted =>
         /\ building.out[1].value.paymentType = building.config[1].paymentType[1]
         /\ building.out[1].value.extra =
              IF building.config[1].extra = Undefined THEN NoExtra
              ELSE building.config[1].extra[1]

\* C21: a createRequirements call with autoDetect = false and an explicit
\* paymentType never runs the detector and leaves its cache as it is; the
\* paymentType returned is the configured one, and extra holds what the config
\* gave and no name or version added by the server.
C21_ManualSkipsDetector ==
  [](C21_NoDetection) /\ [][ManualPaymentType' => cache' = cache]_vars

C21_Witness ==
  /\ ManualPaymentType
  /\ Emitted
  /\ building.config[1].extra = ApiExtra
  /\ building.out[1].value.paymentType = "eip3009"
  /\ building.out[1].value.extra.name = Some("API access")
  /\ building.out[1].value.extra.version = Undefined
  /\ Len(cache) = 1

\* The createRequirements() call has autoDetect other than false.
AutoDetect ==
  /\ building.config # Undefined
  /\ building.config[1].autoDetect # Some(FALSE)

ExplicitPaymentType ==
  /\ building.config[1].paymentType # Undefined
  /\ building.config[1].paymentType # Some("auto")

NoMethod(asset) ==
  Throw(TRUE, "Token " \o Text(asset) \o " does not support advanced payment methods")

\* The payment type of a call with autoDetect other than false: the explicit
\* one; else, in the step in which getRecommendedMethod settles with a value,
\* the method it recommends, or the failure when it recommends none.
C22_PaymentTypeChosen ==
  /\ AutoDetect /\ ExplicitPaymentType /\ Emitted =>
       building.out[1].value.paymentType = building.config[1].paymentType[1]
  /\ AutoDetect /\ building.pc = "done" /\ building.out = Some(NoMethod(building.config[1].asset)) =>
       ~ExplicitPaymentType /\ building.detections = 2

C22_Recommended ==
  /\ building.pc = "recommend"
  /\ building'.pc # "recommend"
  /\ ~tasks["detecting"].out[1].thrown
  => IF tasks["detecting"].out[1].value = Undefined
     THEN building'.out = Some(NoMethod(building.config[1].asset))
     ELSE /\ building'.pc = "supported"
          /\ building'.paymentType = tasks["detecting"].out[1].value
          /\ ~ExplicitPaymentType

\* C22 as stated: a createRequirements call with autoDetect other than false
\* always runs the detector on the asset; its paymentType is the explicit one
\* when set and not 'auto', else the recommended method; with neither it fails
\* with 'does not support advanced payment methods'.
C22_AlwaysDetects ==
  /\ [](AutoDetect /\ building.pc = "done" => building.detections >= 1)
  /\ [](C22_PaymentTypeChosen)
  /\ [][C22_Recommended]_vars

\* C22, amended: the detector is run whenever the config passes validation and
\* the network is known (from the config, the server or a chain-id lookup that
\* succeeded); a call that fails before that runs no detection.
C22_DetectsOnceNetworkKnown ==
  /\ [](AutoDetect =>
          /\ building.network # Undefined => building.detections >= 1
          /\ building.network = Undefined =>
               /\ building.detections = 0
               /\ building.pc \in {"network", "done"}
               /\ building.pc = "done" => building.out[1].thrown
          /\ Emitted => building.detections >= 1 /\ building.paymentType # Undefined
          /\ building.detections >= 1 /\ building.pc \in {"detect", "recommend"} =>
               /\ tasks["detecting"].op \in {"detect", "getRecommendedMethod"}
               /\ tasks["detecting"].arg = <<building.config[1].asset>>)
  /\ [](C22_PaymentTypeChosen)
  /\ [][C22_Recommended]_vars

C22_Witness ==
  /\ AutoDetect
  /\ ~ExplicitPaymentType
  /\ Emitted
  /\ building.detections = 2
  /\ building.out[1].value.asset = USDC
  /\ building.out[1].value.paymentType = "eip3009"
  /\ building.out[1].value.network = "base"

\* The kinds facilitator.supported() gave to the call; none when it failed,
\* gave no response or gave no kinds.
KindsGiven ==
  LET answer == building.supportedResponse[1]
  IN  IF answer.thrown \/ answer.value = Undefined \/ answer.value[1].kinds = Undefined
      THEN << >>
      ELSE answer.value[1].kinds[1]

\* Some kind has the network and an asset of that address, letter case aside,
\* whose primary type is the one of the payment type.
InMatrix(kinds, network, asset, paymentType) ==
  \E k \in 1..Len(kinds) :
    /\ kinds[k].network = network
    /\ kinds[k].assets # Undefined
    /\ \E a \in 1..Len(kinds[k].assets[1]) :
         /\ toLowerCase(kinds[k].assets[1][a].address) = toLowerCase(asset)
         /\ kinds[k].assets[1][a].primaryType =
              Some(CASE paymentType = "permit" -> "Permit"
                     [] paymentType = "eip3009" -> "TransferWithAuthorization"
                     [] paymentType = "permit2" -> "Permit2")

C24_EmittedIsSupported ==
  Emitted =>
    InMatrix(KindsGiven, building.out[1].value.network, building.out[1].value.asset,
             building.out[1].value.paymentType)

\* C25: every record createRequirements returns has scheme "exact" and the
\* recipient address of the facilitator as payTo; maxTimeoutSeconds is 300 and
\* mimeType "application/json" when the config gives none; asset and
\* maxAmountRequired are those of the config, unchanged.
C25_FixedAndDefaults ==
  Emitted =>
    LET config == building.config[1]
        requirements == building.out[1].value
    IN  /\ requirements.scheme = "exact"
        /\ requirements.payTo = recipientAddress
        /\ config.maxTimeoutSeconds = Undefined => requirements.maxTimeoutSeconds = 300
        /\ config.maxTimeoutSeconds # Undefined =>
             requirements.maxTimeoutSeconds = config.maxTimeoutSeconds[1]
        /\ config.mimeType = Undefined => requirements.mimeType = "application/json"
        /\ config.mimeType # Undefined => requirements.mimeType = config.mimeType[1]
        /\ requirements.asset = config.asset
        /\ requirements.maxAmountRequired = config.maxAmountRequired

\* Requirements were returned for a config without maxTimeoutSeconds and
\* mimeType, after requirements for a config that gave both.
C25_Witness ==
  /\ Emitted
  /\ nBuilds = 2
  /\ building.config[1].maxTimeoutSeconds = Undefined
  /\ building.config[1].mimeType = Undefined
  /\ building.out[1].value.maxTimeoutSeconds = 300
  /\ building.out[1].value.asset = USDC
  /\ building.detections = 0
  /\ cache # << >>

\* The table of the chain ids with a name.
NamedChains ==
  (56 :> "bsc") @@ (97 :> "bsc-testnet") @@ (137 :> "polygon")
    @@ (80001 :> "polygon-amoy") @@ (8453 :> "base") @@ (84531 :> "base-sepolia")

NameOfChain(id) ==
  IF id \in DOMAIN NamedChains THEN NamedChains[id] ELSE "chain-" \o ToString(id)

\* A call of createRequirements with a valid config takes the network of the
\* config, else that of the server, and asks the node only when both lack.
C26_Call ==
  (nBuilds' # nBuilds /\ CreateRequirementsConfigSchema(building'.config[1]) = Undefined) =>
    LET config == building'.config[1]
    IN  IF Truthy(config.network)
        THEN building'.network = config.network /\ building'.lookups = 0
        ELSE IF Truthy(thisNetwork)
        THEN building'.network = thisNetwork /\ building'.lookups = 0
        ELSE /\ building'.pc = "network"
             /\ building'.network = Undefined
             /\ building'.lookups = 1

\* After the call the network is only set from the answer of the node, by the
\* table, and without a further lookup.
C26_Lookup ==
  (nBuilds' = nBuilds /\ building'.network # building.network) =>
    /\ building.pc = "network"
    /\ building.network = Undefined
    /\ building'.network = Some(NameOfChain(chain))
    /\ building'.lookups = building.lookups

\* C26: the network of createRequirements is that of the config, else that
\* of the server, else the name the table gives the chain id of the node
\* (56 bsc, 97 bsc-testnet, 137 polygon, 80001 polygon-amoy, 8453 base,
\* 84531 base-sepolia, any other id "chain-<id>"); the node is asked for the
\* chain id on behalf of the network only when config and server name none.
C26_NetworkPrecedence ==
  /\ [][C26_Call /\ C26_Lookup]_vars
  /\ [](/\ building.lookups <= 1
        /\ \A id \in DOMAIN NamedChains \cup {1, 31337} : networkMap(id) = NameOfChain(id))

\* Requirements were returned on the network found by asking the node.
C26_Witness ==
  /\ Emitted
  /\ building.lookups = 1
  /\ building.config[1].network = Undefined
  /\ building.out[1].value.network = "polygon"
  /\ chain = 137

\* A later call took the network the server kept from an earlier lookup.
C26_WitnessKept ==
  /\ nBuilds = 2
  /\ building.pc = "done"
  /\ building.lookups = 0
  /\ building.config[1].network = Undefined
  /\ building.network = Some("chain-1")

\* The network the call resolved: that of the config, else that of the server.
Resolved == IF Truthy(building.config[1].network) THEN building.config[1].network
            ELSE thisNetwork

\* C27: every record createRequirements returns names a network of the closed
\* set; with a server network outside the set, or a chain id the table does
\* not know (named "chain-<id>"), no record is returned: the call fails.
C27_NetworkInClosedSet ==
  /\ Emitted => /\ building.out[1].value.network \in NetworkSchema
                /\ Some(building.out[1].value.network) = Resolved
  /\ (building.pc = "done" /\ building.network # Undefined
        /\ building.network[1] \notin NetworkSchema) =>
       building.out[1].thrown

\* With the node on chain 1 the call passed the support check and failed on
\* the validation of its output.
C27_Witness ==
  /\ building.pc = "done"
  /\ building.network = Some("chain-1")
  /\ building.supported = 1
  /\ building.out[1] = ZodError("Invalid input")
  /\ ~validateFacilitatorSupport("chain-1", building.paymentType[1],
                                 building.config[1].asset,
                                 building.supportedResponse[1]).thrown

\* The same with a server constructed on the network "ethereum".
C27_WitnessOverride ==
  /\ building.pc = "done"
  /\ building.network = Some("ethereum")
  /\ thisNetwork = Some("ethereum")
  /\ building.supported = 1
  /\ building.out[1] = ZodError("Invalid input")

\* A non-empty text of decimal digits.
DigitString(text) == text # << >> /\ \A k \in 1..Len(text) : IsDigit(text[k])

\* The call ended with an error of validation.
ValidationError ==
  /\ building.pc = "done"
  /\ building.out[1].thrown
  /\ building.out[1].error.message \in
       {"Invalid token address", "Amount must be a non-negative integer string",
        "Invalid input"}

\* C28: createRequirements rejects with a validation error every config whose
\* maxAmountRequired is not a non-empty text of decimal digits or whose asset
\* is not 0x and 40 hex digits, and rejects no config for its amount or asset
\* when both have that form, however long the amount.
C28_AmountAndAssetValidated ==
  building.pc = "done" =>
    LET config == building.config[1]
    IN  IF DigitString(config.maxAmountRequired) /\ EthAddressRegex(config.asset)
        THEN ~(/\ building.out[1].thrown
               /\ building.out[1].error.message \in
                    {"Invalid token address",
                     "Amount must be a non-negative integer string"})
        ELSE ValidationError

(***************************************************************************)
(* Claims about the gate middleware, under MiddlewareSpec.                 *)
(***************************************************************************)

\* The run of the middleware is over.
GateDone == gate.pc = "done"

\* process() returned to the middleware, with success or without.
Processed == gate.result # Undefined
Paid == Processed /\ gate.result[1].success

\* The places of an event in the log of the run.
Places(event) == {k \in 1..Len(gate.log) : gate.log[k] = event}

\* C29: the middleware (Express and Hono) calls next if and only if
\* process() returned success, with {payer, txHash} of the result attached
\* to the request before; after a result without success it writes the
\* status of the result (402 or 500) with the response of the result and
\* does not call next.
C29_GateAdmission ==
  /\ Places("next") # {} =>
       /\ Paid
       /\ gate.x402 = Some([payer |-> gate.result[1].data.payer,
                            txHash |-> gate.result[1].data.txHash])
       /\ \A n \in Places("next") : \E a \in Places("x402") : a < n
  /\ (GateDone /\ Paid) => Places("next") # {}
  /\ (GateDone /\ Processed /\ ~Paid) =>
       /\ gate.result[1].status \in {402, 500}
       /\ gate.response = Some([status |-> gate.result[1].status,
                                body |-> gate.result[1].response])
       /\ Places("next") = {}

\* C30: a configured onPaymentSuccess is called exactly once in a run whose
\* process() result is success, with the payer and the transaction hash of
\* the result, after the payment was attached to the request and before
\* next; it is not called after a result without success, nor in a run that
\* failed before process() returned.
C30_OnPaymentSuccessOnce ==
  /\ (options.onPaymentSuccess /\ Paid) =>
       /\ gate.called = <<[payer |-> gate.result[1].data.payer,
                           txHash |-> gate.result[1].data.txHash]>>
       /\ Cardinality(Places("onPaymentSuccess")) = 1
       /\ \A c \in Places("onPaymentSuccess") :
            /\ \E a \in Places("x402") : a < c
            /\ \A n \in Places("next") : c < n
            /\ gate.x402 = Some(gate.called[1])
  /\ ~Paid => gate.called = << >> /\ Places("onPaymentSuccess") = {}

\* A paid request went through: attached, called back, forwarded.
C30_Witness ==
  /\ GateDone
  /\ Paid
  /\ options.onPaymentSuccess
  /\ gate.called = <<[payer |-> "0xPAYER1", txHash |-> "0xTX1"]>>
  /\ gate.log = <<"x402", "onPaymentSuccess", "next">>

\* Runs that ended without the callback: a settle failure answered with 500,
\* and a createRequirements that threw.
C30_WitnessNotCalled ==
  /\ GateDone
  /\ options.onPaymentSuccess
  /\ gate.called = << >>
  /\ \/ Processed /\ gate.result[1].status = 500
     \/ ~Processed /\ gate.response # Undefined /\ gate.response[1].status = 400

C31_WitnessUnexpected ==
  /\ gate.caught # Undefined
  /\ ~options.onError
  /\ building.pc = "done"
  /\ building.out[1].thrown
  /\ gate.caught[1] = building.out[1].error
  /\ "issues" \notin DOMAIN gate.caught[1]
  /\ gate.response[1].status = 500

(***************************************************************************)
(* Claims about the facilitator client, under FacilitatorSpec.             *)
(***************************************************************************)

\* fetch rejected, or the response was not 2xx.
FetchFailed ==
  client.fetched[1].kind = "rejected" \/ ~client.fetched[1].ok

\* C32: verify() and settle() never throw, and after a failure of the network
\* layer or a response that is not 2xx they return success = false with an
\* error text; supported() never throws and returns {kinds: []} after a
\* failure of the network layer or a response that is not 2xx.
C32_ClientNeverThrows ==
  client.pc = "done" =>
    /\ ~client.out[1].thrown
    /\ (client.op \in {"verify", "settle"} /\ FetchFailed) =>
         /\ client.out[1].value.success = FALSE
         /\ Truthy(client.out[1].value.error)
    /\ (client.op = "supported" /\ FetchFailed) =>
         client.out[1].value = Some([kinds |-> Some(<< >>)])

\* settle() has returned after a response with status 500.
C32_Witness ==
  /\ client.pc = "done"
  /\ client.op = "settle"
  /\ client.fetched[1] = FetchStatus(500, "Internal Server Error")
  /\ client.out[1].value.error = Some("Settlement failed: 500")

\* supported() has returned the empty list after fetch rejected.
C32_WitnessSupported ==
  /\ client.pc = "done"
  /\ client.op = "supported"
  /\ client.fetched[1].kind = "rejected"
  /\ client.out[1] = Returned(Some([kinds |-> Some(<< >>)]))

(***************************************************************************)
(* Claims about the state of the server, under BuilderSpec.                *)
(***************************************************************************)

\* C33: nothing the server owns but the cache of the detector changes after
\* construction: whatever is called, the network of the server stays the one
\* it was constructed with (the node behind its client stays the same, and
\* the facilitator and its recipient address are fixed values of the model).
C33_OnlyCacheChanges == [][thisNetwork' = thisNetwork /\ chain' = chain]_vars

(***************************************************************************)
(* Claims about bodies without `success`, under Spec.                      *)
(***************************************************************************)

\* The 2xx body the facilitator answered verify (settle) with, if any.
BodyOf(behaviour) ==
  IF behaviour # Undefined /\ behaviour[1].via = "client"
     /\ behaviour[1].fetched.kind = "response" /\ behaviour[1].fetched.ok
     /\ ~behaviour[1].fetched.json.thrown
  THEN Some(behaviour[1].fetched.json.value)
  ELSE Undefined

\* A 2xx body without the field `success`.
Bare(behaviour) == BodyOf(behaviour) # Undefined /\ BodyOf(behaviour)[1].success = Undefined

\* C39: the client reports success = true for a 2xx body without `success`;
\* so process() answers 200 when the verify body has only a payer and the
\* settle body only a transaction, and still rejects when the payer (402) or
\* the transaction (500) is missing.
C39_SuccessDefaultsToTrue ==
  /\ Bare(verifyBehaviour) => CallVerify(verifyBehaviour[1]).value.success = TRUE
  /\ Bare(settleBehaviour) => CallSettle(settleBehaviour[1]).value.success = TRUE
  /\ (Done /\ Bare(verifyBehaviour) /\ ~Truthy(BodyOf(verifyBehaviour)[1].payer)) =>
       /\ HasReturned
       /\ ~Result.success /\ Result.status = 402 /\ Result.errorStage = "verify"
       /\ settleBehaviour = Undefined
  /\ (Done /\ Bare(verifyBehaviour) /\ Truthy(BodyOf(verifyBehaviour)[1].payer)
        /\ Bare(settleBehaviour)) =>
       /\ HasReturned
       /\ IF Truthy(BodyOf(settleBehaviour)[1].transaction)
          THEN /\ Result.success /\ Result.status = 200
               /\ Result.data = [payer |-> BodyOf(verifyBehaviour)[1].payer[1],
                                 txHash |-> BodyOf(settleBehaviour)[1].transaction[1]]
          ELSE ~Result.success /\ Result.status = 500 /\ Result.errorStage = "settle"

\* A request was admitted on bodies that carry a payer and a transaction
\* and nothing else.
C39_Witness ==
  /\ Done
  /\ HasReturned
  /\ Result.success
  /\ BodyOf(verifyBehaviour) = Some([success |-> Undefined, payer |-> Some("0xPAYER1"),
                                     error |-> Undefined, errorMessage |-> Undefined])
  /\ BodyOf(settleBehaviour) = Some([success |-> Undefined, transaction |-> Some("0xTX1"),
                                     network |-> Undefined, error |-> Undefined,
                                     errorMessage |-> Undefined])

\* A body without success and without payer was rejected at verify.
C39_WitnessRejected ==
  /\ Done
  /\ Bare(verifyBehaviour)
  /\ BodyOf(verifyBehaviour)[1].payer = Undefined
  /\ Result.status = 402

(***************************************************************************)
(* Claims about clearCache() racing a detection, under DetectorSpec.       *)
(***************************************************************************)

\* clearCache(a), or clearCache() of everything, has returned.
ClearReturned(a) ==
  /\ tasks["clearing"].op = "clearCache"
  /\ tasks["clearing"].out = Some(Returned("void"))
  /\ \/ tasks["clearing"].arg \in {Undefined, Some(<< >>)}
     \/ toLowerCase(tasks["clearing"].arg[1]) = toLowerCase(a)

\* Every detection in the tasks was started before clearCache() was called.
NoneStartedSince ==
  \A d \in Detections : d[2] <= Len(tasks[d[1]].subs) => Detection(d).cleared

\* C40: once clearCache(a) or clearCache() has returned, the cache holds no
\* entry for a until a detect(a) that was started after the clear completes;
\* a detection that was in flight when the cache was cleared does not put the
\* entry back.
C40_ClearNotUndone ==
  \A a \in TokenAddresses :
    ClearReturned(a) /\ NoneStartedSince => MapGet(cache, KeyOf(a)) = Undefined

(***************************************************************************)
(* X402Server.initialize (server.ts) and detectSettleMethods (detector.ts) *)
(***************************************************************************)

\* The interface ids of settleWithPermit, settleWithERC3009, settleWithPermit2.
SETTLE_WITH_PERMIT_INTERFACE_ID == "0x02ccc23e"
SETTLE_WITH_ERC3009_INTERFACE_ID == "0x1fe200d9"
SETTLE_WITH_PERMIT2_INTERFACE_ID == "0xa7fcafbb"

InterfaceIds ==
  <<SETTLE_WITH_PERMIT_INTERFACE_ID, SETTLE_WITH_ERC3009_INTERFACE_ID,
    SETTLE_WITH_PERMIT2_INTERFACE_ID>>

\* detectSettleMethods that takes a failed call for support.
detectSettleMethods_lenient(answers) ==
  [supportsSettleWithPermit |-> answers[1].thrown \/ answers[1].value = TRUE,
   supportsSettleWithERC3009 |-> answers[2].thrown \/ answers[2].value = TRUE,
   supportsSettleWithPermit2 |-> answers[3].thrown \/ answers[3].value = TRUE]

\* detectSettleMethods: answers[k] is how supportsInterface(InterfaceIds[k])
\* settled under Promise.allSettled.
detectSettleMethods(answers) ==
  [supportsSettleWithPermit |-> ~answers[1].thrown /\ answers[1].value = TRUE,
   supportsSettleWithERC3009 |-> ~answers[2].thrown /\ answers[2].value = TRUE,
   supportsSettleWithPermit2 |-> ~answers[3].thrown /\ answers[3].value = TRUE]

\* The catch of initialize(): `error instanceof Error ? error.message : ...`.
InitFailure(error) ==
  Returned([success |-> FALSE,
            error |-> Some(IF error.isError THEN error.message ELSE "Initialization failed")])

\* initialize(tokens) is called and awaits detectSettleMethods.
server_initialize_call(tokens) ==
  /\ warmup.pc \in {"idle", "done"}
  /\ Free("detecting")
  /\ warmup' = [IdleWarmup EXCEPT !.pc = "settleMethods", !.tokens = tokens, !.before = cache]
  /\ UNCHANGED <<serverVars, detectorVars, builderVars, gateVars, clientVars, probeVars>>

\* The three supportsInterface calls have settled: the call fails, or goes on
\* to detector.initialize(tokens).
server_initialize_settleMethods(answers) ==
  /\ warmup.pc = "settleMethods"
  /\ LET settleMethods == detectSettleMethods(answers)
     IN  IF \/ ~settleMethods.supportsSettleWithPermit
            \/ ~settleMethods.supportsSettleWithERC3009
            \/ ~settleMethods.supportsSettleWithPermit2
         THEN /\ warmup' = [warmup EXCEPT
                   !.pc = "done", !.answers = answers,
                   !.out = Some(InitFailure([isError |-> TRUE,
                             message |-> "Facilitator does not support settle methods"]))]
              /\ UNCHANGED <<serverVars, detectorVars, builderVars, gateVars, clientVars,
                             probeVars>>
         ELSE /\ warmup' = [warmup EXCEPT !.pc = "detector", !.answers = answers]
              /\ initialize_call("detecting", warmup.tokens)

\* detector.initialize(tokens) has settled; initialize() returns.
server_initialize_return ==
  /\ warmup.pc = "detector"
  /\ tasks["detecting"].out # Undefined
  /\ warmup' = [warmup EXCEPT
       !.pc = "done",
       !.out = Some(IF tasks["detecting"].out[1].thrown
                    THEN InitFailure(tasks["detecting"].out[1].error)
                    ELSE Returned([success |-> TRUE, error |-> Undefined]))]
  /\ task_return("detecting")

\* How a supportsInterface call can settle.
SupportsAnswers == {[thrown |-> TRUE, error |-> RpcError], Returned(TRUE), Returned(FALSE)}

WarmupNext ==
  \/ \E l \in AddressLists : server_initialize_call(l)
  \/ \E answers \in [1..3 -> SupportsAnswers] : server_initialize_settleMethods(answers)
  \/ \E i \in 1..Len(tasks["detecting"].subs), c \in ChainAnswers(chain) :
       detect_key("detecting", i, c)
  \/ \E i \in 1..Len(tasks["detecting"].subs) :
       \E o \in DetectOutcomes[<<tasks["detecting"].subs[i].tokenAddress, chain>>] :
         detect_done("detecting", i, o) /\ UNCHANGED probeVars
  \/ server_initialize_return

WarmupSpec == DetectorInit /\ [][WarmupNext]_vars

(***************************************************************************)
(* Claims about X402Server.initialize, under WarmupSpec.                   *)
(***************************************************************************)

\* The recipient reported support for all three settle interfaces.
AllSupported(answers) == \A k \in 1..Len(InterfaceIds) : answers[k] = Returned(TRUE)

\* What a step of initialize() must do.
C38_Step ==
  /\ (warmup.pc # "done" /\ warmup'.pc = "done") =>
       /\ ~warmup'.out[1].thrown
       /\ IF AllSupported(warmup'.answers)
          THEN /\ warmup.pc = "detector"
               /\ warmup'.out[1].value = [success |-> TRUE, error |-> Undefined]
          ELSE /\ warmup.pc = "settleMethods"
               /\ warmup'.out[1].value.success = FALSE
               /\ warmup'.out[1].value.error # Undefined
               /\ cache' = warmup.before
               /\ <<cache, tasks, nCalls>>' = <<cache, tasks, nCalls>>
  /\ (Free("detecting") /\ ~Free("detecting")') => AllSupported(warmup'.answers)
  /\ warmup.pc = "settleMethods" => cache = warmup.before /\ Free("detecting")

\* C38: X402Server.initialize(tokens) never throws and returns an InitResult:
\* {success: false, error} without a run of the detector and with the cache
\* as it was, unless all three supportsInterface calls answered true (a
\* failed call counts as unsupported); {success: true} when all three did,
\* whatever became of the detections.
C38_InitializeNeverThrows == [][C38_Step]_vars

\* initialize() returned success although the detection of every token failed.
C38_Witness ==
  /\ warmup.pc = "done"
  /\ AllSupported(warmup.answers)
  /\ warmup.out = Some(Returned([success |-> TRUE, error |-> Undefined]))
  /\ Len(warmup.tokens) = 2
  /\ cache = << >>

\* initialize() failed on a failed supportsInterface call and left the cache
\* of an earlier initialize() as it was.
C38_WitnessUnsupported ==
  /\ warmup.pc = "done"
  /\ warmup.answers[2].thrown
  /\ warmup.answers[1] = Returned(TRUE)
  /\ warmup.answers[3] = Returned(TRUE)
  /\ warmup.out[1].value =
       [success |-> FALSE, error |-> Some("Facilitator does not support settle methods")]
  /\ Len(cache) = 2

(***************************************************************************)
(* detectTokenPaymentMethods read by read (detector.ts), inside detect()   *)
(***************************************************************************)

\* The selectors a probe looks for.
Selectors(probe) == IF probe = "hasAnyMethod" THEN EIP3009_SIGNATURES ELSE <<EIP2612_PERMIT>>

\* `!code` for the answer of getCode.
NoCode(value) == value = Undefined \/ value[1] = << >>

\* The probe after one more read.
AfterRead(name, call, address, answer) ==
  [probing EXCEPT !.reads = Append(@, [name |-> name, call |-> call, address |-> address,
                                       answer |-> answer])]

\* The probe returns.
Return(p, value) == [p EXCEPT !.pc = "returned", !.value = Some(value)]

\* A probe whose reads are all skipped: it reports nothing.
Skipped == [value |-> FALSE, rpc |-> {}]

\* detect() missed the cache and calls detectTokenPaymentMethods: the node
\* answers getChainId, and a token without a preset is probed, first by
\* hasAnyMethod.  `code` is the bytecode deployed at the token's address.
detectTokenPaymentMethods_call(chainId, code) ==
  /\ probing.pc = "idle"
  /\ tasks["detecting"].op = "detect"
  /\ tasks["detecting"].subs[1].pc = "detecting"
  /\ LET tokenAddress == tasks["detecting"].subs[1].tokenAddress
         address == toLowerCase(tokenAddress)
     IN  probing' =
           IF chainId.thrown \/ PRESET_TOKEN_CAPABILITIES(address) # Undefined
           THEN [IdleProbe EXCEPT
                   !.pc = "done", !.token = address, !.code = code,
                   !.out = Some(detectTokenPaymentMethods(tokenAddress, chainId,
                                                          Skipped, Skipped, Skipped))]
           ELSE [IdleProbe EXCEPT !.pc = "code", !.token = address, !.code = code,
                                  !.chainId = chainId.value, !.probe = "hasAnyMethod"]
  /\ UNCHANGED <<serverVars, detectorVars, builderVars, gateVars, clientVars, warmVars>>

\* hasAnyMethod, hasMethod: getCode of the token has settled.
probe_code(fails) ==
  /\ probing.pc = "code"
  /\ LET answer == IF fails THEN [thrown |-> TRUE, error |-> RpcError]
                   ELSE Returned(probing.code)
         p == AfterRead("code", "getCode", probing.token, answer)
     IN  probing' = IF answer.thrown THEN Return(p, FALSE)
                    ELSE IF NoCode(answer.value) THEN Return(p, FALSE)
                    ELSE IF SomeSelectorIn(answer.value[1], Selectors(probing.probe))
                    THEN Return(p, TRUE)
                    ELSE [p EXCEPT !.pc = "slot1967"]
  /\ UNCHANGED <<serverVars, detectorVars, builderVars, gateVars, clientVars, warmVars>>

\* getImplementationAddress: the read of the EIP-1967 slot has settled.
probe_slot1967(answer) ==
  /\ probing.pc = "slot1967"
  /\ LET p == AfterRead("slot1967", "getStorageAt", probing.token, answer)
     IN  probing' = IF SlotAddress(answer) # Undefined
                    THEN [p EXCEPT !.impl = Some(SlotAddress(answer)), !.pc = "implCode"]
                    ELSE [p EXCEPT !.pc = "slot1822"]
  /\ UNCHANGED <<serverVars, detectorVars, builderVars, gateVars, clientVars, warmVars>>

\* getImplementationAddress: the read of the EIP-1822 slot has settled.
probe_slot1822(answer) ==
  /\ probing.pc = "slot1822"
  /\ LET p == AfterRead("slot1822", "getStorageAt", probing.token, answer)
     IN  probing' = IF SlotAddress(answer) # Undefined
                    THEN [p EXCEPT !.impl = Some(SlotAddress(answer)), !.pc = "implCode"]
                    ELSE [p EXCEPT !.pc = "implementation"]
  /\ UNCHANGED <<serverVars, detectorVars, builderVars, gateVars, clientVars, warmVars>>

\* getImplementationAddress: the call of implementation() has settled; with
\* no address the function returns null and the probe returns false.
probe_implementation(answer) ==
  /\ probing.pc = "implementation"
  /\ LET p == AfterRead("implementation", "readContract", probing.token, answer)
     IN  probing' = IF ~answer.thrown /\ NonZero(answer.value, ZeroAddress)
                    THEN [p EXCEPT !.impl = Some(answer.value), !.pc = "implCode"]
                    ELSE Return([p EXCEPT !.impl = Some(Undefined)], FALSE)
  /\ UNCHANGED <<serverVars, detectorVars, builderVars, gateVars, clientVars, warmVars>>

\* hasAnyMethod, hasMethod: getCode of the implementation has settled.
probe_implCode(answer) ==
  /\ probing.pc = "implCode"
  /\ LET p == AfterRead("implCode", "getCode", probing.impl[1][1], answer)
     IN  probing' = IF answer.thrown THEN Return(p, FALSE)
                    ELSE IF NoCode(answer.value) THEN Return(p, FALSE)
                    ELSE Return(p, SomeSelectorIn(answer.value[1], Selectors(probing.probe)))
  /\ UNCHANGED <<serverVars, detectorVars, builderVars, gateVars, clientVars, warmVars>>

\* checkPermit2Support: getCode of the Permit2 contract has settled.
probe_permit2Code(answer) ==
  /\ probing.pc = "permit2Code"
  /\ probing' = Return(AfterRead("permit2Code", "getCode", PERMIT2_ADDRESS, answer),
                       checkPermit2Support(answer).value)
  /\ UNCHANGED <<serverVars, detectorVars, builderVars, gateVars, clientVars, warmVars>>

\* What detectTokenPaymentMethods keeps of a probe that returned.
Probed(p) ==
  [probe |-> p.probe, value |-> p.value[1],
   rpc |-> {p.reads[k].call : k \in 1..Len(p.reads)},
   failed |-> {p.reads[k].name : k \in {j \in 1..Len(p.reads) : p.reads[j].answer.thrown}}]

\* A probe has returned: the next one runs, or with all three results
\* detectTokenPaymentMethods builds its result.
probe_return ==
  /\ probing.pc = "returned"
  /\ LET probes == Append(probing.probes, Probed(probing))
         next == [probing EXCEPT !.probes = probes, !.reads = << >>, !.impl = Undefined,
                                 !.value = Undefined]
     IN  probing' =
           IF probing.probe = "hasAnyMethod"
           THEN [next EXCEPT !.probe = "hasMethod", !.pc = "code"]
           ELSE IF probing.probe = "hasMethod"
           THEN [next EXCEPT !.probe = "checkPermit2Support", !.pc = "permit2Code"]
           ELSE [next EXCEPT
                   !.probe = "none", !.pc = "done",
                   !.out = Some(detectTokenPaymentMethods(probing.token,
                                  Returned(probing.chainId),
                                  probes[1], probes[2], probes[3]))]
  /\ UNCHANGED <<serverVars, detectorVars, builderVars, gateVars, clientVars, warmVars>>

\* detect(): detectTokenPaymentMethods and getTokenInfo have settled; the
\* result is stored and returned.
detect_settle(info) ==
  /\ probing.pc = "done"
  /\ \E detection \in DetectMiss(probing.out[1], info) : detect_done("detecting", 1, detection)
  /\ probing' = IdleProbe

\* The bytecode that can be deployed at the token's address.
TokenCodes == {Undefined, Some(<< >>), Some(CodeProxy), Some(CodePermit), Some(CodeEIP3009)}

Permit2Codes == {[thrown |-> TRUE, error |-> RpcError], Returned(Undefined), Returned(Some(CodeProxy))}

ProbeNext ==
  \/ \E a \in {USDC, WLFIChecksummed} : detect_call("detecting", a) /\ UNCHANGED warmVars
  \/ \E i \in 1..Len(tasks["detecting"].subs), c \in ChainAnswers(chain) :
       detect_key("detecting", i, c)
  \/ \E c \in ChainAnswers(chain), code \in TokenCodes : detectTokenPaymentMethods_call(c, code)
  \/ \E fails \in BOOLEAN : probe_code(fails)
  \/ \E answer \in SlotAnswers : probe_slot1967(answer)
  \/ \E answer \in SlotAnswers : probe_slot1822(answer)
  \/ \E answer \in ImplementationAnswers : probe_implementation(answer)
  \/ \E answer \in CodeAnswers : probe_implCode(answer)
  \/ \E answer \in Permit2Codes : probe_permit2Code(answer)
  \/ probe_return
  \/ \E info \in InfoOutcomes(probing.token) : detect_settle(info)
  \/ clearCache_call("clearing", Undefined)
  \/ \E t \in Tasks : task_return(t) /\ UNCHANGED warmVars

ProbeSpec == DetectorInit /\ [][ProbeNext]_vars

(***************************************************************************)
(* Claims about the probes, under ProbeSpec.                               *)
(***************************************************************************)

\* The reads of the running probe with this name.
ReadsNamed(name) == SelectSeq(probing.reads, LAMBDA r : r.name = name)

\* The names of the reads of the running probe, in order.
ReadNames == [k \in 1..Len(probing.reads) |-> probing.reads[k].name]

\* The address a strategy's answer names: none when the read failed or
\* answered zero.
Named(answer) ==
  IF answer \in {Returned(Some(SlotWithImplementation)), Returned(Some(ImplementationAddress))}
  THEN Some(ImplementationAddress)
  ELSE Undefined

Strategies == <<"slot1967", "slot1822", "implementation">>

\* The strategies tried so far, in order.
Tried == SelectSeq(ReadNames, LAMBDA n : n \in {"slot1967", "slot1822", "implementation"})

\* C34: proxy resolution reads the EIP-1967 slot, then, only when that read
\* failed or answered zero, the EIP-1822 slot, then, only when that failed or
\* answered zero too, implementation(); a strategy that fails is followed by
\* the next; the first address that is not zero is returned, and null is
\* returned exactly when all three failed or answered zero.
C34_ProxyResolutionOrder ==
  /\ Tried = SubSeq(Strategies, 1, Len(Tried))
  /\ \A k \in 1..Len(Tried) :
       LET answer == ReadsNamed(Tried[k])[1].answer
       IN  /\ k < Len(Tried) => Named(answer) = Undefined
           /\ (k = Len(Tried) /\ Named(answer) = Undefined) =>
                IF k < 3 THEN probing.pc = Strategies[k + 1] /\ probing.impl = Undefined
                ELSE probing.impl = Some(Undefined)
           /\ (k = Len(Tried) /\ Named(answer) # Undefined) =>
                probing.impl = Some(Named(answer))
  /\ probing.impl = Some(Undefined) =>
       /\ Tried = Strategies
       /\ \A k \in 1..3 : Named(ReadsNamed(Strategies[k])[1].answer) = Undefined
  /\ probing.impl \notin {Undefined, Some(Undefined)} =>
       /\ Tried # << >>
       /\ probing.impl[1][1] # ZeroAddress
  /\ Tried = << >> => probing.impl = Undefined

\* The EIP-1967 read failed, the EIP-1822 slot was empty, and implementation()
\* named the implementation, in which the selector was found.
C34_Witness ==
  /\ probing.pc = "returned"
  /\ ReadNames = <<"code", "slot1967", "slot1822", "implementation", "implCode">>
  /\ probing.reads[2].answer.thrown
  /\ probing.reads[3].answer = Returned(Some(ZeroWord))
  /\ probing.impl = Some(Some(ImplementationAddress))
  /\ probing.value = Some(TRUE)

\* All three strategies failed or answered zero: not a proxy.
C34_WitnessNull ==
  /\ probing.pc = "returned"
  /\ ReadNames = <<"code", "slot1967", "slot1822", "implementation">>
  /\ probing.reads[2].answer = Returned(Some(ZeroWord))
  /\ probing.reads[3].answer.thrown
  /\ probing.reads[4].answer = Returned(Some(ZeroAddress))
  /\ probing.impl = Some(Undefined)
  /\ probing.value = Some(FALSE)

\* The bytecodes that hold a selector the probe looks for: e3ee160e (in
\* capitals in CodeEIP3009) or cf092995 for EIP-3009, d505accf for permit.
Holding(probe) ==
  IF probe = "hasAnyMethod" THEN {CodeEIP3009, CodeImplementation}
  ELSE {CodePermit, CodeImplementation}

\* The read with this name answered a bytecode holding a selector of the probe.
Found(name) ==
  /\ Len(ReadsNamed(name)) = 1
  /\ ~ReadsNamed(name)[1].answer.thrown
  /\ ReadsNamed(name)[1].answer.value # Undefined
  /\ ReadsNamed(name)[1].answer.value[1] \in Holding(probing.probe)

\* C35: a selector probe returns true iff the token's bytecode holds one of
\* its selectors, in whatever case, or, when it does not, the bytecode of the
\* resolved implementation does.  The implementation is resolved at most once
\* per probe, never after a direct match, always on the token and never on
\* the implementation, whose bytecode is the last thing the probe reads.
C35_SelectorProbe ==
  probing.probe \in {"hasAnyMethod", "hasMethod"} =>
    /\ probing.pc = "returned" => probing.value = Some(Found("code") \/ Found("implCode"))
    /\ \A n \in {"code", "slot1967", "slot1822", "implementation", "implCode"} :
         Len(ReadsNamed(n)) <= 1
    /\ Found("code") => ReadNames = <<"code">>
    /\ \A k \in 1..Len(probing.reads) :
         LET r == probing.reads[k]
         IN  /\ r.name # "implCode" => r.address = probing.token
             /\ r.name = "implCode" =>
                  /\ k = Len(probing.reads)
                  /\ probing.impl = Some(Some(r.address))
                  /\ r.address # probing.token
             /\ k = 1 <=> r.name = "code"
    /\ Len(probing.reads) > 1 =>
         /\ ~probing.reads[1].answer.thrown
         /\ ~NoCode(probing.reads[1].answer.value)

\* The permit probe found its selector in the implementation of a proxy.
C35_Witness ==
  /\ probing.pc = "returned"
  /\ probing.probe = "hasMethod"
  /\ probing.code = Some(CodeProxy)
  /\ ReadNames = <<"code", "slot1967", "implCode">>
  /\ probing.reads[3].answer = Returned(Some(CodeImplementation))
  /\ probing.value = Some(TRUE)

\* The EIP-3009 probe found a selector written in capitals in the token's
\* own bytecode and resolved nothing.
C35_WitnessDirect ==
  /\ probing.pc = "returned"
  /\ probing.probe = "hasAnyMethod"
  /\ probing.code = Some(CodeEIP3009)
  /\ ReadNames = <<"code">>
  /\ probing.value = Some(TRUE)

\* A detectTokenPaymentMethods run of a token without a preset has come to
\* its result.
Detected ==
  /\ probing.pc = "done"
  /\ Len(probing.probes) = 3
  /\ ~probing.out[1].result.thrown

\* C36: for a token without deployed bytecode every probe (EIP-3009, permit,
\* Permit2) returns false, the detected supportedMethods is empty and the
\* recommended method is none.
C36_NoBytecodeNoMethods ==
  Detected /\ NoCode(probing.code) =>
    /\ \A k \in 1..3 : probing.probes[k].value = FALSE
    /\ probing.out[1].result.value.supportedMethods = << >>
    /\ probing.out[1].result.value.details =
         [hasEIP3009 |-> FALSE, hasPermit |-> FALSE, hasPermit2Approval |-> FALSE]
    /\ RecommendedOf(probing.out[1].result.value.supportedMethods) = Undefined

\* What a step that ends a probe, ends the run, stores its result or settles
\* a later detect must do.
C37_Step ==
  /\ (probing.pc # "returned" /\ probing'.pc = "returned") =>
       LET p == Probed(probing')
       IN  /\ p.failed # {} => p.value = FALSE
           /\ probing'.probes = probing.probes
  /\ (probing.pc # "done" /\ probing'.pc = "done" /\ Len(probing'.probes) = 3) =>
       /\ ~probing'.out[1].result.thrown
       /\ probing'.out[1].result.value.details =
            [hasEIP3009 |-> probing'.probes[1].value, hasPermit |-> probing'.probes[2].value,
             hasPermit2Approval |-> probing'.probes[3].value]
  /\ (Detected /\ probing'.pc = "idle") =>
       /\ MapGet(cache', KeyOf(probing.token)) # Undefined
       /\ MapGet(cache', KeyOf(probing.token))[1].details = probing.out[1].result.value.details
  /\ \A a \in {USDC, WLFIChecksummed} :
       (/\ MapGet(cache, KeyOf(a)) # Undefined
        /\ tasks["detecting"].op = "detect"
        /\ tasks["detecting"].arg = <<a>>
        /\ tasks["detecting"].out = Undefined
        /\ tasks'["detecting"].out # Undefined) =>
         tasks'["detecting"].out = Some(Returned(MapGet(cache, KeyOf(a))[1]))

\* C37: a failed bytecode or storage read of a probe makes that probe, and no
\* other, report false; detectTokenPaymentMethods does not fail for it; the
\* capabilities are stored in the cache with the token's name and version,
\* and a later detect of the token returns the stored entry.
C37_DegradedPerProbe == [][C37_Step]_vars

====
